---- MODULE Spec2Model ----
(***************************************************************************)
(* A model of the telos storage engine (crates/telos-store and the object  *)
(* codec of crates/telos-core): lockfiles, the reference store, the object *)
(* database, the index store and the repository layer over them.           *)
(*                                                                         *)
(* Conventions.  A path, a stream name and the content of a file are       *)
(* sequences of tokens; a token is a string standing for one or more       *)
(* characters that the code never splits ("/" and "." are tokens of their  *)
(* own, NUL is the zero byte, " " and "\n" are whitespace).  Paths are     *)
(* relative to the .telos directory.                                        *)
(***************************************************************************)
EXTENDS Naturals, Sequences, FiniteSets, TLC

VARIABLES
    files,      \* regular files under .telos outside objects/ and indexes/: path -> content
    dirs,       \* directories under .telos outside objects/ (paths)
    objects,    \* the object database: <<fan-out dir, file name>> -> stored bytes
    persists,   \* how many times a file was renamed onto each object path
    indexes,    \* the three index files: index name -> (key -> sequence of entries)
    sha,        \* SHA-256 as a collision-free oracle: hashed byte strings -> ObjectId
    locks,      \* the live Lockfile values of the processes: process -> Lockfile or NoLock
    walker,     \* the IntentWalker that walk_intents returned last: its queue and visited
    yielded,    \* the items that the next() calls on that walker returned, in order
    calls,      \* the call each process is in the middle of: its position and its locals
    indexdir    \* the indexes directory as files: names -> inode, inode -> bytes

vars == <<files, dirs, objects, persists, indexes, sha, locks, walker, yielded, calls, indexdir>>

----------------------------------------------------------------------------
(* Bounds of the model *)

MaxObjects == 2     \* objects a behaviour stores at most
MaxWrites == 2      \* write_all calls on one Lockfile at most
MaxPersists == 2    \* counted renames onto one object path at most

----------------------------------------------------------------------------
(* Sequences of tokens *)

IsPrefix(p, q) == Len(p) <= Len(q) /\ SubSeq(q, 1, Len(p)) = p

Positions(s, tok) == {i \in 1..Len(s) : s[i] = tok}

Max(S) == CHOOSE x \in S : \A y \in S : y <= x

Min(S) == CHOOSE x \in S : \A y \in S : x <= y

\* str.contains("..")
ContainsDotDot(s) == \E i \in 1..(Len(s) - 1) : s[i] = "." /\ s[i + 1] = "."

\* str.split('/'): the segments between the separators, empty ones included
RECURSIVE Split(_)
Split(s) ==
    IF Positions(s, "/") = {} THEN <<s>>
    ELSE LET i == Min(Positions(s, "/"))
         IN <<SubSeq(s, 1, i - 1)>> \o Split(SubSeq(s, i + 1, Len(s)))

Whitespace == {" ", "\n"}

\* str.trim(): leading and trailing whitespace removed
RECURSIVE TrimEnd(_)
TrimEnd(s) ==
    IF s # <<>> /\ s[Len(s)] \in Whitespace THEN TrimEnd(SubSeq(s, 1, Len(s) - 1)) ELSE s

RECURSIVE TrimStart(_)
TrimStart(s) ==
    IF s # <<>> /\ s[1] \in Whitespace THEN TrimStart(Tail(s)) ELSE s

Trim(s) == TrimEnd(TrimStart(s))

----------------------------------------------------------------------------
(* Paths and the file system *)

NoFile == <<"<absent>">>

\* Path::parent: the path without its last component (<<>> is .telos itself)
Parent(p) ==
    IF Positions(p, "/") = {} THEN <<>> ELSE SubSeq(p, 1, Max(Positions(p, "/")) - 1)

\* Path::file_name: the last component
FileName(p) ==
    IF Positions(p, "/") = {} THEN p ELSE SubSeq(p, Max(Positions(p, "/")) + 1, Len(p))

\* a directory and its ancestors below .telos
Ancestors(d) ==
    IF d = <<>> THEN {}
    ELSE {SubSeq(d, 1, i - 1) : i \in Positions(d, "/")} \cup {d}

FS(f, d) == [files |-> f, dirs |-> d]

IsFile(fs, p) == p \in DOMAIN fs.files

IsDir(fs, p) == p = <<>> \/ p \in fs.dirs

\* Path::exists
PathExists(fs, p) == IsFile(fs, p) \/ IsDir(fs, p)

\* fs::create_dir_all: fails when a component is a regular file
CreateDirAll(fs, d) ==
    IF \E a \in Ancestors(d) : IsFile(fs, a)
    THEN [ok |-> FALSE, fs |-> fs]
    ELSE [ok |-> TRUE, fs |-> FS(fs.files, fs.dirs \cup Ancestors(d))]

PutFile(fs, p, content) ==
    FS([q \in DOMAIN fs.files \cup {p} |-> IF q = p THEN content ELSE fs.files[q]], fs.dirs)

RemoveFile(fs, p) == FS([q \in DOMAIN fs.files \ {p} |-> fs.files[q]], fs.dirs)

\* fs::read_dir(d).next().is_none()
DirIsEmpty(fs, d) ==
    /\ \A f \in DOMAIN fs.files : Parent(f) # d
    /\ \A e \in fs.dirs : Parent(e) # d

\* fs::rename(from, to) of a regular file: fails when from is missing, when to is a
\* directory or when to's directory is missing; replaces an existing file atomically
Rename(fs, from, to) ==
    IF ~IsFile(fs, from) \/ IsDir(fs, to) \/ ~IsDir(fs, Parent(to))
    THEN [ok |-> FALSE, fs |-> fs]
    ELSE [ok |-> TRUE, fs |-> PutFile(RemoveFile(fs, from), to, fs.files[from])]

----------------------------------------------------------------------------
(* Lockfile (lockfile.rs) *)

None == <<>>

Some(x) == <<x>>

\* Path::extension of the file name: the part after its last dot, unless the only dot
\* is the first character
Extension(p) ==
    LET after(name, dotsAt) ==
            IF dotsAt = {} \/ Max(dotsAt) = 1 THEN None
            ELSE Some(SubSeq(name, Max(dotsAt) + 1, Len(name)))
    IN after(FileName(p), Positions(FileName(p), "."))

\* Path::with_extension: the file stem, then "." and ext when ext is not empty
WithExtension(p, ext) ==
    LET stem(old) == IF old = None THEN p ELSE SubSeq(p, 1, Len(p) - Len(old[1]) - 1)
        with(s) == IF ext = <<>> THEN s ELSE s \o <<".">> \o ext
    IN with(stem(Extension(p)))

\* the lock path of a target: <target>.lock
LockPath(target) ==
    LET ext(old) == IF old = None THEN <<"lock">> ELSE old[1] \o <<".", "lock">>
    IN WithExtension(target, ext(Extension(target)))

NoLock == [target |-> <<>>, lock_path |-> <<>>, file |-> FALSE, writes |-> 0]

\* an acquire that opens <target>.lock with create and truncate instead of create_new
AcquireTruncating(fs, target) ==
    LET open(lp, mk) ==
            IF ~mk.ok THEN [res |-> "Io", fs |-> fs, lock |-> NoLock]
            ELSE [res |-> "Ok", fs |-> PutFile(mk.fs, lp, <<>>),
                  lock |-> [target |-> target, lock_path |-> lp, file |-> TRUE,
                            writes |-> 0]]
        in(lp) == open(lp, CreateDirAll(fs, Parent(lp)))
    IN in(LockPath(target))

\* Lockfile::acquire: create the parent directory, then open <target>.lock with
\* create_new; the lock is the Lockfile with its file open
Acquire(fs, target) ==
    LET open(lp, mk) ==
            IF ~mk.ok THEN [res |-> "Io", fs |-> fs, lock |-> NoLock]
            ELSE IF PathExists(mk.fs, lp)
                 THEN [res |-> "LockConflict", fs |-> mk.fs, lock |-> NoLock]
                 ELSE [res |-> "Ok", fs |-> PutFile(mk.fs, lp, <<>>),
                       lock |-> [target |-> target, lock_path |-> lp, file |-> TRUE,
                                 writes |-> 0]]
        in(lp) == open(lp, CreateDirAll(fs, Parent(lp)))
    IN in(LockPath(target))

\* Lockfile::write_all: the bytes go to the open file at its position, that is
\* after what was written before
WriteAll(fs, lock, data) ==
    IF ~lock.file THEN [res |-> "LockConflict", fs |-> fs]
    ELSE [res |-> "Ok",
          fs |-> IF IsFile(fs, lock.lock_path)
                 THEN PutFile(fs, lock.lock_path, fs.files[lock.lock_path] \o data)
                 ELSE fs]

\* Lockfile::commit: the file handle is taken, then the lock file is renamed onto
\* the target.  The Lockfile is consumed: its drop finds no file and removes nothing
Commit(fs, lock) ==
    LET done(mv) == [res |-> IF mv.ok THEN "Ok" ELSE "Io", fs |-> mv.fs]
    IN done(Rename(fs, lock.lock_path, lock.target))

\* a drop that leaves the lock file where it is
DropKeepingFile(fs, lock) == fs

\* Drop for Lockfile: remove the lock file when the file is still held
DropLock(fs, lock) ==
    IF lock.file /\ IsFile(fs, lock.lock_path) THEN RemoveFile(fs, lock.lock_path) ELSE fs

\* a locked write that removes a lock file it finds before it acquires
LockedWriteBreaking(fs, target, data) ==
    LET written(a, w) ==
            IF w.res # "Ok" THEN [res |-> w.res, fs |-> DropLock(w.fs, a.lock)]
            ELSE Commit(w.fs, a.lock)
        acquired(a) ==
            IF a.res # "Ok" THEN [res |-> a.res, fs |-> a.fs]
            ELSE written(a, WriteAll(a.fs, a.lock, data))
    IN acquired(Acquire(IF IsFile(fs, LockPath(target))
                        THEN RemoveFile(fs, LockPath(target)) ELSE fs, target))

\* acquire, write_all, commit as set_head and write_stream chain them with `?`
LockedWrite(fs, target, data) ==
    LET written(a, w) ==
            IF w.res # "Ok" THEN [res |-> w.res, fs |-> DropLock(w.fs, a.lock)]
            ELSE Commit(w.fs, a.lock)
        acquired(a) ==
            IF a.res # "Ok" THEN [res |-> a.res, fs |-> a.fs]
            ELSE written(a, WriteAll(a.fs, a.lock, data))
    IN acquired(Acquire(fs, target))

----------------------------------------------------------------------------
(* Reference store (refs.rs) *)

HeadPath == <<"HEAD">>

StreamsDir == <<"refs", "/", "streams">>

\* RefStore::stream_path: streams_dir().join(name)
StreamPath(name) == StreamsDir \o <<"/">> \o name

HeadPrefix == "ref: refs/streams/"

\* a validation that does not look at the segments between the slashes
ValidateWithoutSegments(name) ==
    IF name = <<>> THEN "InvalidStreamName"
    ELSE IF Positions(name, "NUL") # {} THEN "InvalidStreamName"
    ELSE IF name[1] = "." THEN "InvalidStreamName"
    ELSE IF ContainsDotDot(name) THEN "InvalidStreamName"
    ELSE "Ok"

\* RefStore::validate_stream_name
ValidateStreamName(name) ==
    LET badComponent(parts) ==
            \E i \in 1..Len(parts) : parts[i] = <<>> \/ parts[i][1] = "."
    IN IF name = <<>> THEN "InvalidStreamName"
       ELSE IF Positions(name, "NUL") # {} THEN "InvalidStreamName"
       ELSE IF name[1] = "." THEN "InvalidStreamName"
       ELSE IF ContainsDotDot(name) THEN "InvalidStreamName"
       ELSE IF badComponent(Split(name)) THEN "InvalidStreamName"
       ELSE "Ok"

\* RefStore::read_head
ReadHead(fs) ==
    LET parse(content) ==
            IF content # <<>> /\ content[1] = HeadPrefix
            THEN [res |-> "Ok", name |-> Tail(content)]
            ELSE [res |-> "InvalidHead", name |-> <<>>]
    IN IF ~IsFile(fs, HeadPath) THEN [res |-> "InvalidHead", name |-> <<>>]
       ELSE parse(Trim(fs.files[HeadPath]))

\* RefStore::set_head
SetHead(fs, stream_name) ==
    IF ValidateStreamName(stream_name) # "Ok" THEN [res |-> "InvalidStreamName", fs |-> fs]
    ELSE LockedWrite(fs, HeadPath, <<HeadPrefix>> \o stream_name \o <<"\n">>)

\* An IntentStreamRef: name, tip (an Option), created_at, description (an Option)
StreamRef(name, tip, created_at, description) ==
    [name |-> name, tip |-> tip, created_at |-> created_at, description |-> description]

NoRef == StreamRef(<<>>, None, "", None)

\* serde_json::to_string_pretty(stream): the members in declaration order, an
\* absent tip or description skipped
RefToJson(r) ==
    <<<<"name", r.name>>>>
    \o (IF r.tip = None THEN <<>> ELSE <<<<"tip", r.tip>>>>)
    \o <<<<"created_at", <<r.created_at>>>>>>
    \o (IF r.description = None THEN <<>> ELSE <<<<"description", r.description>>>>)

JsonKeys(json) == {json[i][1] : i \in 1..Len(json)}

JsonGet(json, key) == json[CHOOSE i \in 1..Len(json) : json[i][1] = key][2]

\* serde_json::from_str::<IntentStreamRef>: name and created_at are required, tip
\* and description default to None; a member given twice, or text after the value,
\* is an error
RefFromJson(json) ==
    LET option(keys, key) == IF key \in keys THEN JsonGet(json, key) ELSE None
        parse(keys) ==
            IF /\ {"name", "created_at"} \subseteq keys
               /\ keys \subseteq {"name", "tip", "created_at", "description"}
               /\ Cardinality(keys) = Len(json)
            THEN [res |-> "Ok",
                  ref |-> StreamRef(JsonGet(json, "name"), option(keys, "tip"),
                                    JsonGet(json, "created_at")[1],
                                    option(keys, "description"))]
            ELSE [res |-> "Json", ref |-> NoRef]
    IN parse(JsonKeys(json))

\* RefStore::read_stream
ReadStream(fs, name) ==
    IF ~IsFile(fs, StreamPath(name)) THEN [res |-> "StreamNotFound", ref |-> NoRef]
    ELSE RefFromJson(fs.files[StreamPath(name)])

\* RefStore::write_stream
WriteStream(fs, stream) ==
    IF ValidateStreamName(stream.name) # "Ok" THEN [res |-> "InvalidStreamName", fs |-> fs]
    ELSE LockedWrite(fs, StreamPath(stream.name), RefToJson(stream))

\* a create_stream that does not look whether the stream exists
CreateStreamOverwriting(fs, stream) ==
    IF ValidateStreamName(stream.name) # "Ok" THEN [res |-> "InvalidStreamName", fs |-> fs]
    ELSE WriteStream(fs, stream)

\* RefStore::create_stream
CreateStream(fs, stream) ==
    IF ValidateStreamName(stream.name) # "Ok" THEN [res |-> "InvalidStreamName", fs |-> fs]
    ELSE IF PathExists(fs, StreamPath(stream.name)) THEN [res |-> "StreamExists", fs |-> fs]
    ELSE WriteStream(fs, stream)

\* the loop of delete_stream that removes the empty parent directories up to the
\* streams root
RECURSIVE CleanUpParents(_, _)
CleanUpParents(fs, dir) ==
    IF dir = StreamsDir \/ dir = <<>> THEN fs
    ELSE IF ~IsDir(fs, dir) \/ DirIsEmpty(fs, dir)
         THEN CleanUpParents(FS(fs.files, fs.dirs \ {dir}), Parent(dir))
         ELSE fs

\* RefStore::delete_stream
DeleteStream(fs, name) ==
    LET remove(head, path) ==
            IF head.res # "Ok" THEN [res |-> head.res, fs |-> fs]
            ELSE IF head.name = name THEN [res |-> "StreamNotFound", fs |-> fs]
            ELSE IF ~PathExists(fs, path) THEN [res |-> "StreamNotFound", fs |-> fs]
            ELSE IF ~IsFile(fs, path) THEN [res |-> "Io", fs |-> fs]
            ELSE [res |-> "Ok", fs |-> CleanUpParents(RemoveFile(fs, path), Parent(path))]
    IN IF ValidateStreamName(name) # "Ok" THEN [res |-> "InvalidStreamName", fs |-> fs]
       ELSE remove(ReadHead(fs), StreamPath(name))

\* the entries of a directory, as fs::read_dir gives them
DirEntries(fs, dir) == {p \in DOMAIN fs.files \cup fs.dirs : Parent(p) = dir}

\* a collect_streams that does not go into directories
RECURSIVE CollectTopLevel(_, _, _, _)
CollectTopLevel(fs, root, entries, names) ==
    LET visit(e, rest) ==
            IF IsDir(fs, e) THEN CollectTopLevel(fs, root, rest, names)
            ELSE CollectTopLevel(fs, root, rest,
                                 Append(names, SubSeq(e, Len(root) + 2, Len(e))))
        take(e) == visit(e, entries \ {e})
    IN IF entries = {} THEN names ELSE take(CHOOSE e \in entries : TRUE)

\* RefStore::collect_streams over the entries of one directory, in the order read_dir
\* happens to give them: a directory is walked, the path of a file relative to the
\* root is pushed
RECURSIVE CollectStreams(_, _, _, _)
CollectStreams(fs, root, entries, names) ==
    LET visit(e, rest) ==
            IF IsDir(fs, e)
            THEN CollectStreams(fs, root, rest,
                                CollectStreams(fs, root, DirEntries(fs, e), names))
            ELSE CollectStreams(fs, root, rest,
                                Append(names, SubSeq(e, Len(root) + 2, Len(e))))
        take(e) == visit(e, entries \ {e})
    IN IF entries = {} THEN names ELSE take(CHOOSE e \in entries : TRUE)

\* the tokens in ascending order of their bytes
TokenOrder == <<"NUL", "\n", " ", ".", "/", "a", "b", "c", "evil", "lock", "main">>

TokenRank ==
    [tok \in {TokenOrder[i] : i \in 1..Len(TokenOrder)} |->
        CHOOSE i \in 1..Len(TokenOrder) : TokenOrder[i] = tok]

\* Ord for String: a <= b byte by byte, a prefix before what it is a prefix of
RECURSIVE NameLeq(_, _)
NameLeq(a, b) ==
    IF a = <<>> THEN TRUE
    ELSE IF b = <<>> THEN FALSE
    ELSE IF a[1] = b[1] THEN NameLeq(Tail(a), Tail(b))
    ELSE TokenRank[a[1]] < TokenRank[b[1]]

\* Vec<String>::sort
RECURSIVE SortNames(_)
SortNames(names) ==
    LET first(least) ==
            <<names[least]>>
            \o SortNames(SubSeq(names, 1, least - 1)
                         \o SubSeq(names, least + 1, Len(names)))
    IN IF names = <<>> THEN <<>>
       ELSE first(Min({i \in 1..Len(names) :
                          \A j \in 1..Len(names) : NameLeq(names[i], names[j])}))

\* RefStore::list_streams
ListStreams(fs) ==
    IF ~PathExists(fs, StreamsDir) THEN <<>>
    ELSE SortNames(CollectStreams(fs, StreamsDir, DirEntries(fs, StreamsDir), <<>>))

\* RefStore::current_stream
CurrentStream(fs) ==
    LET read(head) ==
            IF head.res # "Ok" THEN [res |-> head.res, ref |-> NoRef]
            ELSE ReadStream(fs, head.name)
    IN read(ReadHead(fs))

\* an update of the tip of the stream named main, whatever HEAD names
UpdateMainTip(fs, tip) ==
    LET update(cur) ==
            IF cur.res # "Ok" THEN [res |-> cur.res, fs |-> fs]
            ELSE WriteStream(fs, [cur.ref EXCEPT !.tip = Some(tip)])
    IN update(ReadStream(fs, <<"main">>))

\* RefStore::update_current_tip
UpdateCurrentTip(fs, tip) ==
    LET update(cur) ==
            IF cur.res # "Ok" THEN [res |-> cur.res, fs |-> fs]
            ELSE WriteStream(fs, [cur.ref EXCEPT !.tip = Some(tip)])
    IN update(CurrentStream(fs))

----------------------------------------------------------------------------
(* ObjectId (hash.rs) *)

HexLen == 64

\* The ObjectIds of the model.  SHA-256 is a collision-free oracle (the variable sha):
\* a byte string hashed for the first time gets an ObjectId no other byte string has.
\* FakeIds are digests of byte strings that are never stored, such as
\* ObjectId::hash(b"nonexistent") in the tests.
IdPool == {"i1", "i2", "i3", "i4"}

FakeIds == {"x1"}

\* the leading hex digits of each ObjectId; the other digits are "0"
HexHead ==
    [i \in IdPool \cup FakeIds |->
        CASE i = "i1" -> <<"a", "b", "1", "2", "0">>
          [] i = "i2" -> <<"a", "b", "1", "2", "f">>
          [] i = "i3" -> <<"a", "b", "9", "9", "0">>
          [] i = "i4" -> <<"c", "d", "0", "0", "0">>
          [] OTHER    -> <<"a", "b", "1", "2", "7">>]

\* ObjectId::hex: the 64 hex digits
Hex(id) == HexHead[id] \o [i \in 1..(HexLen - Len(HexHead[id])) |-> "0"]

\* a fan-out that splits after the third digit
FanOutAfterThree(id) == <<SubSeq(Hex(id), 1, 3), SubSeq(Hex(id), 4, HexLen)>>

\* ObjectId::fan_out: (hex[..2], hex[2..])
FanOut(id) == <<SubSeq(Hex(id), 1, 2), SubSeq(Hex(id), 3, HexLen)>>

\* ObjectId::hash(bytes) once the oracle has answered for bytes
Hash(table, bytes) == table[bytes]

\* the order in which the oracle hands out the ObjectIds of the pool
IdOrder == <<"i1", "i2", "i3", "i4">>

\* the oracle's answer for bytes: the ObjectId it gave before, or for a byte string
\* not hashed before the first ObjectId that no other byte string has
Digest(table, bytes) ==
    IF bytes \in DOMAIN table THEN table[bytes]
    ELSE LET used == {table[b] : b \in DOMAIN table}
         IN IF \A i \in 1..Len(IdOrder) : IdOrder[i] \in used THEN "exhausted"
            ELSE IdOrder[Min({i \in 1..Len(IdOrder) : IdOrder[i] \notin used})]

Oracle(table, bytes, id) ==
    [b \in DOMAIN table \cup {bytes} |-> IF b = bytes THEN id ELSE table[b]]

----------------------------------------------------------------------------
(* Typed records and the canonical codec (object/*.rs, serialize.rs).  The   *)
(* records keep the fields the store, the indexes and the walker read; the  *)
(* author, the free-text lists and the metadata are left out.               *)

Intent(timestamp, statement, parents, impacts) ==
    [type |-> "intent", timestamp |-> timestamp, statement |-> statement,
     parents |-> parents, impacts |-> impacts]

DecisionRecord(intent_id, timestamp, question, tags) ==
    [type |-> "decision_record", intent_id |-> intent_id, timestamp |-> timestamp,
     question |-> question, tags |-> tags]

Constraint(timestamp, statement, status, source_intent, superseded_by, impacts) ==
    [type |-> "constraint", timestamp |-> timestamp, statement |-> statement,
     status |-> status, source_intent |-> source_intent,
     superseded_by |-> superseded_by, impacts |-> impacts]

CodeBinding(path, symbol, binding_type, bound_object) ==
    [type |-> "code_binding", path |-> path, symbol |-> symbol,
     binding_type |-> binding_type, bound_object |-> bound_object]

AgentOperation(agent_id, session_id, timestamp, context_refs) ==
    [type |-> "agent_operation", agent_id |-> agent_id, session_id |-> session_id,
     timestamp |-> timestamp, context_refs |-> context_refs]

ChangeSet(timestamp, git_commit, intents) ==
    [type |-> "change_set", timestamp |-> timestamp, git_commit |-> git_commit,
     intents |-> intents]

NoObject == [type |-> "none"]

\* TelosObject::type_tag
TypeTag(obj) == obj.type

TypeTags ==
    {"intent", "decision_record", "constraint", "code_binding", "agent_operation",
     "change_set"}

\* serde_json::to_value of the record: its members in declaration order, a member
\* marked skip_serializing_if left out when empty or None
Members(obj) ==
    LET opt(key, v) == IF v = <<>> THEN <<>> ELSE <<<<key, v>>>>
    IN CASE obj.type = "intent" ->
              <<<<"timestamp", <<obj.timestamp>>>>, <<"statement", <<obj.statement>>>>>>
              \o opt("parents", obj.parents) \o opt("impacts", obj.impacts)
         [] obj.type = "decision_record" ->
              <<<<"intent_id", <<obj.intent_id>>>>, <<"timestamp", <<obj.timestamp>>>>,
                <<"question", <<obj.question>>>>>>
              \o opt("tags", obj.tags)
         [] obj.type = "constraint" ->
              <<<<"timestamp", <<obj.timestamp>>>>, <<"statement", <<obj.statement>>>>,
                <<"status", <<obj.status>>>>, <<"source_intent", <<obj.source_intent>>>>>>
              \o opt("superseded_by", obj.superseded_by) \o opt("impacts", obj.impacts)
         [] obj.type = "code_binding" ->
              <<<<"path", <<obj.path>>>>>> \o opt("symbol", obj.symbol)
              \o <<<<"binding_type", <<obj.binding_type>>>>,
                   <<"bound_object", <<obj.bound_object>>>>>>
         [] obj.type = "agent_operation" ->
              <<<<"agent_id", <<obj.agent_id>>>>, <<"session_id", <<obj.session_id>>>>,
                <<"timestamp", <<obj.timestamp>>>>>>
              \o opt("context_refs", obj.context_refs)
         [] obj.type = "change_set" ->
              <<<<"timestamp", <<obj.timestamp>>>>, <<"git_commit", <<obj.git_commit>>>>>>
              \o opt("intents", obj.intents)

\* the member names in ascending byte order
KeyOrder ==
    <<"agent_id", "binding_type", "bound_object", "context_refs", "git_commit", "impacts",
      "intent_id", "intents", "parents", "path", "question", "session_id",
      "source_intent", "statement", "status", "superseded_by", "symbol", "tags",
      "timestamp">>

KeyRank ==
    [key \in {KeyOrder[i] : i \in 1..Len(KeyOrder)} |->
        CHOOSE i \in 1..Len(KeyOrder) : KeyOrder[i] = key]

\* sort_value: the members collected into a BTreeMap, that is by ascending key
RECURSIVE SortValue(_)
SortValue(members) ==
    LET first(least) ==
            <<members[least]>>
            \o SortValue(SubSeq(members, 1, least - 1)
                         \o SubSeq(members, least + 1, Len(members)))
    IN IF members = <<>> THEN <<>>
       ELSE first(CHOOSE i \in 1..Len(members) :
                      \A j \in 1..Len(members) :
                          KeyRank[members[i][1]] <= KeyRank[members[j][1]])

NulByte == <<"NUL", <<>>>>

\* canonical_serialize / TelosObject::canonical_bytes: type_tag, 0, sorted JSON
CanonicalBytes(obj) == <<<<"tag", <<TypeTag(obj)>>>>, NulByte>> \o SortValue(Members(obj))

\* serde's derived Deserialize of each record: required members, members that
\* default when missing, and no member twice
Required(tag) ==
    CASE tag = "intent" -> {"timestamp", "statement"}
      [] tag = "decision_record" -> {"intent_id", "timestamp", "question"}
      [] tag = "constraint" -> {"timestamp", "statement", "status", "source_intent"}
      [] tag = "code_binding" -> {"path", "binding_type", "bound_object"}
      [] tag = "agent_operation" -> {"agent_id", "session_id", "timestamp"}
      [] tag = "change_set" -> {"timestamp", "git_commit"}

Defaulted(tag) ==
    CASE tag = "intent" -> {"parents", "impacts"}
      [] tag = "decision_record" -> {"tags"}
      [] tag = "constraint" -> {"superseded_by", "impacts"}
      [] tag = "code_binding" -> {"symbol"}
      [] tag = "agent_operation" -> {"context_refs"}
      [] tag = "change_set" -> {"intents"}

Deserialize(tag, json) ==
    LET one(key) == JsonGet(json, key)[1]
        many(key) == IF key \in JsonKeys(json) THEN JsonGet(json, key) ELSE <<>>
    IN CASE tag = "intent" ->
              Intent(one("timestamp"), one("statement"), many("parents"), many("impacts"))
         [] tag = "decision_record" ->
              DecisionRecord(one("intent_id"), one("timestamp"), one("question"),
                             many("tags"))
         [] tag = "constraint" ->
              Constraint(one("timestamp"), one("statement"), one("status"),
                         one("source_intent"), many("superseded_by"), many("impacts"))
         [] tag = "code_binding" ->
              CodeBinding(one("path"), many("symbol"), one("binding_type"),
                          one("bound_object"))
         [] tag = "agent_operation" ->
              AgentOperation(one("agent_id"), one("session_id"), one("timestamp"),
                             many("context_refs"))
         [] tag = "change_set" ->
              ChangeSet(one("timestamp"), one("git_commit"), many("intents"))

\* TelosObject::from_canonical_bytes
FromCanonicalBytes(data) ==
    LET decode(t, json, keys) ==
            IF /\ Required(t) \subseteq keys
               /\ keys \subseteq Required(t) \cup Defaulted(t)
               /\ Cardinality(keys) = Len(json)
               /\ \A k \in Required(t) : Len(JsonGet(json, k)) = 1
            THEN [res |-> "Ok", obj |-> Deserialize(t, json)]
            ELSE [res |-> "Core", obj |-> NoObject]
        split(tag, json) ==
            IF ~(Len(tag) = 1 /\ tag[1][1] = "tag" /\ Len(tag[1][2]) = 1
                 /\ tag[1][2][1] \in TypeTags)
            THEN [res |-> "Core", obj |-> NoObject]
            ELSE decode(tag[1][2][1], json, JsonKeys(json))
        at(null_pos) ==
            split(SubSeq(data, 1, null_pos - 1), SubSeq(data, null_pos + 1, Len(data)))
        find(nulls) ==
            IF nulls = {} THEN [res |-> "Core", obj |-> NoObject] ELSE at(Min(nulls))
    IN find({i \in 1..Len(data) : data[i] = NulByte})

----------------------------------------------------------------------------
(* Object database (odb.rs).  A store is the objects directory: the files *)
(* by path, and how often a file was persisted (renamed) onto each path.  *)

Store(objs, pers) == [objects |-> objs, persists |-> pers]

\* ObjectDatabase::object_path
ObjectPath(id) == FanOut(id)

\* ObjectDatabase::exists
OdbExists(store, id) == ObjectPath(id) \in DOMAIN store.objects

\* the temp file written and persisted onto the object's path
Persist(store, path, bytes) ==
    Store([q \in DOMAIN store.objects \cup {path} |->
              IF q = path THEN bytes ELSE store.objects[q]],
          [q \in DOMAIN store.persists \cup {path} |->
              IF q = path
              THEN (IF q \in DOMAIN store.persists /\ store.persists[q] < MaxPersists
                    THEN store.persists[q] + 1
                    ELSE IF q \in DOMAIN store.persists THEN MaxPersists ELSE 1)
              ELSE store.persists[q]])

\* a write that persists the object whether or not its file exists
OdbWriteAlways(store, object, id) ==
    [id |-> id, store |-> Persist(store, ObjectPath(id), CanonicalBytes(object))]

\* a write that clears the objects directory before it stores the object
OdbWriteReplacing(store, object, id) ==
    [id |-> id, store |-> Persist(Store(<<>>, <<>>), ObjectPath(id), CanonicalBytes(object))]

\* ObjectDatabase::write, id being ObjectId::hash of the object's canonical bytes
OdbWrite(store, object, id) ==
    LET at(path) ==
            IF path \in DOMAIN store.objects THEN [id |-> id, store |-> store]
            ELSE [id |-> id, store |-> Persist(store, path, CanonicalBytes(object))]
    IN at(ObjectPath(id))

\* a read that decodes the stored bytes without hashing them
OdbReadUnverified(store, table, id) ==
    LET decoded(d) == [res |-> d.res, obj |-> d.obj, expected |-> id, actual |-> id]
        at(path) ==
            IF path \notin DOMAIN store.objects
            THEN [res |-> "ObjectNotFound", obj |-> NoObject, expected |-> id, actual |-> id]
            ELSE decoded(FromCanonicalBytes(store.objects[path]))
    IN at(ObjectPath(id))

\* ObjectDatabase::read
OdbRead(store, table, id) ==
    LET decoded(d) == [res |-> d.res, obj |-> d.obj, expected |-> id, actual |-> id]
        verify(bytes, actual_id) ==
            IF actual_id # id
            THEN [res |-> "IntegrityError", obj |-> NoObject,
                  expected |-> id, actual |-> actual_id]
            ELSE decoded(FromCanonicalBytes(bytes))
        hash(bytes) == verify(bytes, Hash(table, bytes))
        at(path) ==
            IF path \notin DOMAIN store.objects
            THEN [res |-> "ObjectNotFound", obj |-> NoObject, expected |-> id, actual |-> id]
            ELSE hash(store.objects[path])
    IN at(ObjectPath(id))

\* ObjectId::parse of the 64 hex digits of a file's path: the ObjectId with these digits
IdOfHex(hex) == {id \in IdPool \cup FakeIds : Hex(id) = hex}

\* ObjectDatabase::iter_all: the id and the object of every file under the fan-out
\* directories that read returns an object for, in the order read_dir happens to give
RECURSIVE IterAll(_, _, _)
IterAll(store, table, paths) ==
    LET push(id, r, rest) ==
            IF r.res = "Ok" THEN <<<<id, r.obj>>>> \o IterAll(store, table, rest)
            ELSE IterAll(store, table, rest)
        parsed(ids, rest) ==
            IF ids = {} THEN IterAll(store, table, rest)
            ELSE push(CHOOSE id \in ids : TRUE,
                      OdbRead(store, table, CHOOSE id \in ids : TRUE), rest)
        visit(path) ==
            IF Len(path[1]) # 2 THEN IterAll(store, table, paths \ {path})
            ELSE parsed(IdOfHex(path[1] \o path[2]), paths \ {path})
    IN IF paths = {} THEN <<>> ELSE visit(CHOOSE path \in paths : TRUE)

\* the names of the files in the fan-out directory fan_out that start with rest
Matches(store, fan_out, rest) ==
    {path \in DOMAIN store.objects : path[1] = fan_out /\ IsPrefix(rest, path[2])}

\* a resolve_prefix that returns one of the matches when there are several
ResolveAnyMatch(store, prefix) ==
    LET parsed(ids) ==
            IF ids = {} THEN [res |-> "InvalidObjectId", id |-> "", count |-> 0]
            ELSE [res |-> "Ok", id |-> CHOOSE id \in ids : TRUE, count |-> 0]
        one(path) == parsed(IdOfHex(path[1] \o path[2]))
        matched(matches) ==
            IF matches = {} THEN [res |-> "ObjectNotFound", id |-> "", count |-> 0]
            ELSE one(CHOOSE path \in matches : TRUE)
    IN IF Len(prefix) < 4 THEN [res |-> "AmbiguousPrefix", id |-> "", count |-> 0]
       ELSE matched(Matches(store, SubSeq(prefix, 1, 2), SubSeq(prefix, 3, Len(prefix))))

\* ObjectDatabase::resolve_prefix.  The fan-out directory exists when an object file is
\* in it; a directory without a match gives ObjectNotFound like a missing one
ResolvePrefix(store, prefix) ==
    LET parsed(ids) ==
            IF ids = {} THEN [res |-> "InvalidObjectId", id |-> "", count |-> 0]
            ELSE [res |-> "Ok", id |-> CHOOSE id \in ids : TRUE, count |-> 0]
        one(path) == parsed(IdOfHex(path[1] \o path[2]))
        matched(matches) ==
            IF matches = {} THEN [res |-> "ObjectNotFound", id |-> "", count |-> 0]
            ELSE IF Cardinality(matches) = 1 THEN one(CHOOSE path \in matches : TRUE)
            ELSE [res |-> "AmbiguousPrefix", id |-> "", count |-> Cardinality(matches)]
    IN IF Len(prefix) < 4 THEN [res |-> "AmbiguousPrefix", id |-> "", count |-> 0]
       ELSE matched(Matches(store, SubSeq(prefix, 1, 2), SubSeq(prefix, 3, Len(prefix))))

----------------------------------------------------------------------------
(* Index store (index_store.rs).  An index file is the map of its entries; *)
(* a missing file loads as the empty map.                                   *)

EmptyIndex == <<>>

NoIndexes == [impact |-> EmptyIndex, codepath |-> EmptyIndex, symbols |-> EmptyIndex]

\* an insert that replaces the entries of the key
PutEntry(index, key, entry) ==
    [k \in DOMAIN index \cup {key} |-> IF k = key THEN <<entry>> ELSE index[k]]

\* index.entries.entry(key).or_default().push(entry)
PushEntry(index, key, entry) ==
    [k \in DOMAIN index \cup {key} |->
        IF k = key
        THEN (IF k \in DOMAIN index THEN index[k] ELSE <<>>) \o <<entry>>
        ELSE index[k]]

RECURSIVE PushForTags(_, _, _)
PushForTags(index, tags, entry) ==
    IF tags = <<>> THEN index
    ELSE PushForTags(PushEntry(index, Head(tags), entry), Tail(tags), entry)

IndexEntry(id, object_type) == [id |-> id, object_type |-> object_type]

PathIndexEntry(id, cb) ==
    [id |-> id, object_type |-> "code_binding", symbol |-> cb.symbol,
     binding_type |-> Some(cb.binding_type)]

\* IndexStore::update_for_object
UpdateForObject(idx, id, obj) ==
    CASE obj.type \in {"intent", "constraint"} ->
           IF obj.impacts # <<>>
           THEN [idx EXCEPT !.impact = PushForTags(@, obj.impacts, IndexEntry(id, obj.type))]
           ELSE idx
      [] obj.type = "code_binding" ->
           [idx EXCEPT
              !.codepath = PushEntry(@, obj.path, PathIndexEntry(id, obj)),
              !.symbols = IF obj.symbol # None
                          THEN PushEntry(@, obj.symbol[1], PathIndexEntry(id, obj))
                          ELSE @]
      [] OTHER -> idx

\* the match of rebuild_all on one object
RebuildForObject(idx, id, obj) ==
    CASE obj.type \in {"intent", "constraint"} ->
           [idx EXCEPT !.impact = PushForTags(@, obj.impacts, IndexEntry(id, obj.type))]
      [] obj.type = "code_binding" ->
           [idx EXCEPT
              !.codepath = PushEntry(@, obj.path, PathIndexEntry(id, obj)),
              !.symbols = IF obj.symbol # None
                          THEN PushEntry(@, obj.symbol[1], PathIndexEntry(id, obj))
                          ELSE @]
      [] OTHER -> idx

\* the loop of rebuild_all over what iter_all returned
RECURSIVE RebuildFrom(_, _)
RebuildFrom(idx, items) ==
    IF items = <<>> THEN idx
    ELSE RebuildFrom(RebuildForObject(idx, Head(items)[1], Head(items)[2]), Tail(items))

\* a rebuild that adds to the index files instead of starting from empty ones
RebuildOntoCurrent(store, table) ==
    RebuildFrom(indexes, IterAll(store, table, DOMAIN store.objects))

\* the counts rebuild_all returns: entries.len() of the three maps
RebuildCounts(idx) ==
    <<Cardinality(DOMAIN idx.impact), Cardinality(DOMAIN idx.codepath),
      Cardinality(DOMAIN idx.symbols)>>

\* IndexStore::rebuild_all: the three index files it saves
RebuildAll(store, table) ==
    RebuildFrom(NoIndexes, IterAll(store, table, DOMAIN store.objects))

\* IndexStore::by_impact / by_path / by_symbol
Lookup(index, key) == IF key \in DOMAIN index THEN index[key] ELSE <<>>

ByImpact(idx, tag) == Lookup(idx.impact, tag)

ByPath(idx, path) == Lookup(idx.codepath, path)

BySymbol(idx, name) == Lookup(idx.symbols, name)

\* the longest entry list of the three indexes
LongestEntryList(idx) ==
    LET lens == {0} \cup {Len(idx.impact[k]) : k \in DOMAIN idx.impact}
                    \cup {Len(idx.codepath[k]) : k \in DOMAIN idx.codepath}
                    \cup {Len(idx.symbols[k]) : k \in DOMAIN idx.symbols}
    IN Max(lens)

----------------------------------------------------------------------------
(* Queries (query.rs).  A result is a sequence of <<id, constraint>> pairs. *)

\* the order of the timestamps of the model
TimeOrder == <<"t0", "t1", "t2">>

TimeRank == [t \in {"t0", "t1", "t2"} |-> CHOOSE i \in 1..3 : TimeOrder[i] = t]

\* results.sort_by(|a, b| b.1.timestamp.cmp(&a.1.timestamp)): a stable sort, the
\* latest timestamp first
RECURSIVE SortByTimestamp(_)
SortByTimestamp(results) ==
    LET before(sorted, x) ==
            {i \in 1..Len(sorted) :
                TimeRank[sorted[i][2].timestamp] >= TimeRank[x[2].timestamp]}
        into(sorted, x, n) ==
            SubSeq(sorted, 1, n) \o <<x>> \o SubSeq(sorted, n + 1, Len(sorted))
        insert(sorted, x) == into(sorted, x, Cardinality(before(sorted, x)))
    IN IF results = <<>> THEN <<>>
       ELSE insert(SortByTimestamp(SubSeq(results, 1, Len(results) - 1)),
                   results[Len(results)])

\* the loop of query_constraints_by_file and query_constraints_by_symbol over the
\* entries of the index: the binding is read, then the object it is bound to
RECURSIVE BoundConstraints(_, _, _)
BoundConstraints(store, table, entries) ==
    LET bound(id, c, rest) ==
            IF c.res = "Ok" /\ c.obj.type = "constraint" THEN <<<<id, c.obj>>>> \o rest
            ELSE rest
        binding(cb, rest) ==
            IF cb.res = "Ok" /\ cb.obj.type = "code_binding"
            THEN bound(cb.obj.bound_object, OdbRead(store, table, cb.obj.bound_object), rest)
            ELSE rest
        parsed(ids, rest) ==
            IF ids = {} THEN rest
            ELSE binding(OdbRead(store, table, CHOOSE id \in ids : TRUE), rest)
    IN IF entries = <<>> THEN <<>>
       ELSE parsed(IdOfHex(Hex(Head(entries).id)),
                   BoundConstraints(store, table, Tail(entries)))

\* a query by file that fails when a binding of the path is bound to no stored constraint
QueryByFileStrict(store, table, idx, file_path) ==
    LET all(found) ==
            IF Len(found) < Len(ByPath(idx, file_path))
            THEN [res |-> "ObjectNotFound", results |-> <<>>]
            ELSE [res |-> "Ok", results |-> SortByTimestamp(found)]
    IN all(BoundConstraints(store, table, ByPath(idx, file_path)))

\* query_constraints_by_file
QueryConstraintsByFile(store, table, idx, file_path) ==
    [res |-> "Ok",
     results |-> SortByTimestamp(BoundConstraints(store, table, ByPath(idx, file_path)))]

\* query_constraints_by_symbol
QueryConstraintsBySymbol(store, table, idx, symbol) ==
    [res |-> "Ok",
     results |-> SortByTimestamp(BoundConstraints(store, table, BySymbol(idx, symbol)))]

\* query_constraints: the stored constraints with the status, and with the impact when
\* one is given, the latest first; a status that is none of the three is active
QueryConstraints(store, table, impact, status) ==
    LET target == IF status \in {"active", "superseded", "deprecated"} THEN status
                  ELSE "active"
        matches(c) ==
            /\ c.type = "constraint"
            /\ c.status = target
            /\ impact # None => \E i \in 1..Len(c.impacts) : c.impacts[i] = impact[1]
        filter(all) == SelectSeq(all, LAMBDA pair : matches(pair[2]))
    IN SortByTimestamp(filter(IterAll(store, table, DOMAIN store.objects)))

----------------------------------------------------------------------------
(* Repository (repository.rs) *)

Main == <<"main">>

\* the reference store and the empty stores that Repository::init leaves
InitFiles ==
    (HeadPath :> (<<HeadPrefix>> \o Main \o <<"\n">>))
    @@ (StreamPath(Main) :>
            RefToJson(StreamRef(Main, None, "t0", Some("Default intent stream"))))

InitDirs == {<<"refs">>, StreamsDir, <<"logs">>, <<"logs", "/", "streams">>, <<"indexes">>}

NoStore == Store(<<>>, <<>>)

\* a validation that accepts every list of ids
AcceptAnyRefs(store, table, ids) == "Ok"

\* the validation loop of create_intent and the check of create_decision: the error
\* of the first referenced id that is not a stored intent, or "Ok"
RECURSIVE ValidateIntentRefs(_, _, _)
ValidateIntentRefs(store, table, ids) ==
    LET check(r) ==
            IF r.res # "Ok" THEN r.res
            ELSE IF r.obj.type # "intent" THEN "InvalidReference"
            ELSE ValidateIntentRefs(store, table, Tail(ids))
    IN IF ids = <<>> THEN "Ok" ELSE check(OdbRead(store, table, Head(ids)))

Outcome(res, id, fs, store, idx) ==
    [res |-> res, id |-> id, fs |-> fs, store |-> store, idx |-> idx]

\* a create_intent that stores the intent without reading its parents
CreateIntentUnvalidated(fs, store, idx, table, intent, id) ==
    LET tipped(w, i, u) ==
            Outcome(u.res, IF u.res = "Ok" THEN w.id ELSE "", u.fs, w.store, i)
        written(w) ==
            tipped(w, UpdateForObject(idx, w.id, intent), UpdateCurrentTip(fs, w.id))
    IN written(OdbWrite(store, intent, id))

\* Repository::create_intent, id being the ObjectId of the intent
CreateIntent(fs, store, idx, table, intent, id) ==
    LET tipped(w, i, u) ==
            Outcome(u.res, IF u.res = "Ok" THEN w.id ELSE "", u.fs, w.store, i)
        written(w) ==
            tipped(w, UpdateForObject(idx, w.id, intent), UpdateCurrentTip(fs, w.id))
        validated(valid) ==
            IF valid # "Ok" THEN Outcome(valid, "", fs, store, idx)
            ELSE written(OdbWrite(store, intent, id))
    IN validated(ValidateIntentRefs(store, table, intent.parents))

\* a creator that reads the intent a constraint comes from before it stores it
CreateChecked(fs, store, idx, table, obj, id) ==
    LET written(w) == Outcome("Ok", w.id, fs, w.store, UpdateForObject(idx, w.id, obj))
        validated(valid) ==
            IF valid # "Ok" THEN Outcome(valid, "", fs, store, idx)
            ELSE written(OdbWrite(store, obj, id))
    IN validated(ValidateIntentRefs(store, table,
                     IF obj.type = "constraint" THEN <<obj.source_intent>> ELSE <<>>))

\* Repository::create_constraint, create_code_binding, create_agent_operation and
\* create_change_set: write the object, update the indexes
CreateUnchecked(fs, store, idx, table, obj, id) ==
    LET written(w) == Outcome("Ok", w.id, fs, w.store, UpdateForObject(idx, w.id, obj))
    IN written(OdbWrite(store, obj, id))

\* a create_decision that does not look at intent_id
CreateDecisionUnvalidated(fs, store, idx, table, record, id) ==
    CreateUnchecked(fs, store, idx, table, record, id)

\* Repository::create_decision
CreateDecision(fs, store, idx, table, record, id) ==
    LET written(w) == Outcome("Ok", w.id, fs, w.store, UpdateForObject(idx, w.id, record))
        validated(valid) ==
            IF valid # "Ok" THEN Outcome(valid, "", fs, store, idx)
            ELSE written(OdbWrite(store, record, id))
    IN validated(ValidateIntentRefs(store, table, <<record.intent_id>>))

\* the creator of each record type
Create(fs, store, idx, table, obj, id) ==
    CASE obj.type = "intent" -> CreateIntent(fs, store, idx, table, obj, id)
      [] obj.type = "decision_record" -> CreateDecision(fs, store, idx, table, obj, id)
      [] OTHER -> CreateUnchecked(fs, store, idx, table, obj, id)

\* whether the creator gets as far as hashing the object
ReachesHash(store, table, obj) ==
    CASE obj.type = "intent" -> ValidateIntentRefs(store, table, obj.parents) = "Ok"
      [] obj.type = "decision_record" ->
           ValidateIntentRefs(store, table, <<obj.intent_id>>) = "Ok"
      [] OTHER -> TRUE

\* the supersede command (telos-cli, commands/supersede.rs), old_id being a full id
\* and now the time of the call: the old constraint is read, a copy with the new
\* statement is created, then a copy of the old one that is superseded by the new id.
\* table is the oracle, which the outcome carries on after the two hashes
Supersede(fs, store, idx, table, old_id, statement, now) ==
    LET failed(res) ==
            [res |-> res, new_id |-> "", superseded_id |-> "", fs |-> fs, store |-> store,
             idx |-> idx, table |-> table]
        second(c1, c2, table2) ==
            [res |-> "Ok", new_id |-> c1.id, superseded_id |-> c2.id, fs |-> c2.fs,
             store |-> c2.store, idx |-> c2.idx, table |-> table2]
        rehashed(c1, superseded, id2, table2) ==
            second(c1, CreateUnchecked(c1.fs, c1.store, c1.idx, table2, superseded, id2),
                   table2)
        copy(c1, superseded, table1) ==
            rehashed(c1, superseded, Digest(table1, CanonicalBytes(superseded)),
                     Oracle(table1, CanonicalBytes(superseded),
                            Digest(table1, CanonicalBytes(superseded))))
        first(old, new, id1, table1) ==
            copy(CreateUnchecked(fs, store, idx, table1, new, id1),
                 [old EXCEPT !.status = "superseded", !.superseded_by = Some(id1)], table1)
        hashed(old, new, id1) ==
            first(old, new, id1, Oracle(table, CanonicalBytes(new), id1))
        replace(old, new) == hashed(old, new, Digest(table, CanonicalBytes(new)))
        found(r) ==
            IF r.res # "Ok" THEN failed(r.res)
            ELSE IF r.obj.type # "constraint" THEN failed("NotAConstraint")
            ELSE IF r.obj.status # "active" THEN failed("NotActive")
            ELSE replace(r.obj, [r.obj EXCEPT !.timestamp = now, !.statement = statement,
                                              !.status = "active", !.superseded_by = None])
    IN found(OdbRead(store, table, old_id))

----------------------------------------------------------------------------
(* IntentWalker (repository.rs): the queue of ids still to read and the hex *)
(* strings of the ids that were ever put on it                              *)

IntentWalker(queue, visited) == [queue |-> queue, visited |-> visited]

\* no walker: what is left of a walker whose queue ran empty
NoWalker == IntentWalker(<<>>, {})

\* IntentWalker::new
NewWalker(start) == IntentWalker(<<start>>, {Hex(start)})

\* a loop that puts every parent at the back of the queue, visited or not
EnqueueAllParents(w, parents) ==
    IntentWalker(w.queue \o parents,
                 w.visited \cup {Hex(parents[i]) : i \in 1..Len(parents)})

\* the loop over intent.parents in next(): a parent whose hex string is new to visited
\* is put at the back of the queue
RECURSIVE EnqueueParents(_, _)
EnqueueParents(w, parents) ==
    IF parents = <<>> THEN w
    ELSE IF Hex(Head(parents)) \in w.visited THEN EnqueueParents(w, Tail(parents))
    ELSE EnqueueParents(IntentWalker(w.queue \o <<Head(parents)>>,
                                     w.visited \cup {Hex(Head(parents))}),
                        Tail(parents))

WalkItem(res, id, obj) == [res |-> res, id |-> id, obj |-> obj]

\* Iterator::next for IntentWalker: the walker after the call and the returned item,
\* None when the queue ran empty
RECURSIVE WalkerNext(_, _, _)
WalkerNext(store, table, w) ==
    LET read(id, popped, r) ==
            IF r.res # "Ok"
            THEN [walker |-> popped, item |-> Some(WalkItem(r.res, id, NoObject))]
            ELSE IF r.obj.type = "intent"
            THEN [walker |-> EnqueueParents(popped, r.obj.parents),
                  item |-> Some(WalkItem("Ok", id, r.obj))]
            ELSE WalkerNext(store, table, popped)
        pop(id, popped) == read(id, popped, OdbRead(store, table, id))
    IN IF w.queue = <<>> THEN [walker |-> w, item |-> None]
       ELSE pop(Head(w.queue), IntentWalker(Tail(w.queue), w.visited))

----------------------------------------------------------------------------
(* The calls of ObjectDatabase and IndexStore in steps, for processes that  *)
(* run them concurrently.  A call is the position of a process in the call  *)
(* and its locals: the temp file of odb.write (a file of a fresh name in    *)
(* the fan-out directory, which no other call opens), the index that        *)
(* update_for_object loaded, and the inode its open file handle refers to.  *)

NoCall ==
    [op |-> "none", pc |-> "idle", object |-> NoObject, id |-> "", temp |-> None,
     index |-> EmptyIndex, handle |-> 0, ret |-> <<>>]

\* ObjectDatabase::write up to the exists check, id being the hash of the bytes
WriteBegin(store, object, id) ==
    IF OdbExists(store, id)
    THEN [NoCall EXCEPT !.op = "write", !.pc = "done", !.object = object, !.id = id,
                        !.ret = <<"Ok", id>>]
    ELSE [NoCall EXCEPT !.op = "write", !.pc = "create", !.object = object, !.id = id]

\* a write that creates the file at the object's path instead of a temp file
CreateInPlace(store, call) ==
    [store |-> Store([q \in DOMAIN store.objects \cup {ObjectPath(call.id)} |->
                         IF q = ObjectPath(call.id) THEN <<>> ELSE store.objects[q]],
                     store.persists),
     call |-> [call EXCEPT !.temp = Some(<<>>), !.pc = "write"]]

\* create_dir_all of the fan-out directory and NamedTempFile::new_in: an empty file
CreateTemp(store, call) ==
    [store |-> store, call |-> [call EXCEPT !.temp = Some(<<>>), !.pc = "write"]]

\* write_all and flush on the temp file
WriteTemp(call) ==
    [call EXCEPT !.temp = Some(call.temp[1] \o CanonicalBytes(call.object)),
                 !.pc = "persist"]

\* tmp.persist(&path): the temp file is renamed onto the object's path
PersistTemp(store, call) ==
    [store |-> Persist(store, ObjectPath(call.id), call.temp[1]),
     call |-> [call EXCEPT !.temp = None, !.pc = "done", !.ret = <<"Ok", call.id>>]]

\* ObjectDatabase::read as a call of a process
ReadCall(store, table, id) ==
    LET got(r) == [NoCall EXCEPT !.op = "read", !.pc = "done", !.id = id,
                                 !.ret = <<r.res, r.obj>>]
    IN got(OdbRead(store, table, id))

\* impact.json and the temp file that save_index writes for it
ImpactPath == <<"indexes", "/", "impact", ".", "json">>

TmpPath(path) == WithExtension(path, <<"json", ".", "tmp">>)

\* the indexes directory: the inode behind each name and the bytes of each inode.  The
\* bytes of a file are nothing, the JSON text of an index, or such a text followed by
\* the end of a longer text that was in the file before
NoIndexDir == [names |-> <<>>, data |-> <<>>]

Inodes == 1..4

RECURSIVE EntryCount(_, _)
EntryCount(index, keys) ==
    LET more(k) == Len(index[k]) + EntryCount(index, keys \ {k})
    IN IF keys = {} THEN 0 ELSE more(CHOOSE k \in keys : TRUE)

\* serde_json::to_string_pretty of an index
IndexJson(index) == <<index>>

\* the length of the bytes of a file, in entries of the longest text in it
TextLen(bytes) ==
    IF bytes = <<>> THEN 0 ELSE EntryCount(bytes[Len(bytes)], DOMAIN bytes[Len(bytes)])

\* load_index: the index in the file, the empty index when the file is missing or its
\* text does not parse
LoadIndex(dir, path) ==
    LET parse(bytes) == IF Len(bytes) = 1 THEN bytes[1] ELSE EmptyIndex
    IN IF path \in DOMAIN dir.names THEN parse(dir.data[dir.names[path]]) ELSE EmptyIndex

\* update_for_object for an intent or a constraint with impacts, up to the push
UpdateBegin(dir, id, obj) ==
    [NoCall EXCEPT !.op = "update", !.pc = "create", !.object = obj, !.id = id,
                   !.index = PushForTags(LoadIndex(dir, ImpactPath), obj.impacts,
                                         IndexEntry(id, obj.type))]

\* the inodes that a name or an open handle still refers to
Live(names, data, handles) ==
    LET live == {names[n] : n \in DOMAIN names} \cup handles
    IN [i \in DOMAIN data \cap live |-> data[i]]

\* File::create(tmp_path): the file of that name is truncated, or a new file is made
CreateTmp(dir, call, handles) ==
    LET open(ino) ==
            [dir |-> [names |-> [n \in DOMAIN dir.names \cup {TmpPath(ImpactPath)} |->
                                    IF n = TmpPath(ImpactPath) THEN ino ELSE dir.names[n]],
                      data |-> [i \in DOMAIN dir.data \cup {ino} |->
                                    IF i = ino THEN <<>> ELSE dir.data[i]]],
             call |-> [call EXCEPT !.handle = ino, !.pc = "write"]]
    IN IF TmpPath(ImpactPath) \in DOMAIN dir.names
       THEN open(dir.names[TmpPath(ImpactPath)])
       ELSE open(Min(Inodes \ (DOMAIN dir.data \cup handles)))

\* f.write_all(json) and flush: the text goes to the start of the file the handle is
\* open on, whatever name that file has by now
WriteTmp(dir, call) ==
    LET over(old, text) ==
            IF TextLen(text) >= TextLen(old) THEN text ELSE text \o <<old[Len(old)]>>
    IN [dir |-> [dir EXCEPT !.data[call.handle] = over(@, IndexJson(call.index))],
        call |-> [call EXCEPT !.pc = "rename"]]

\* fs::rename(tmp_path, path), after which the handle is dropped
RenameTmp(dir, call, handles) ==
    LET moved(names) == [names |-> names, data |-> Live(names, dir.data, handles)]
        unlinked == [names |-> dir.names, data |-> Live(dir.names, dir.data, handles)]
    IN IF TmpPath(ImpactPath) \notin DOMAIN dir.names
       THEN [dir |-> unlinked, call |-> [call EXCEPT !.pc = "done", !.ret = <<"Io">>]]
       ELSE [dir |-> moved([n \in (DOMAIN dir.names \cup {ImpactPath})
                                   \ {TmpPath(ImpactPath)} |->
                               IF n = ImpactPath THEN dir.names[TmpPath(ImpactPath)]
                               ELSE dir.names[n]]),
             call |-> [call EXCEPT !.pc = "done", !.ret = <<"Ok">>]]

----------------------------------------------------------------------------
(* The inputs of the calls *)

MaxEntries == 2     \* entries under one index key at most

Timestamps == {"t1"}

Statements == {"s1"}

ImpactLists == {<<>>, <<"auth">>}

\* the ids a caller can hold: those of hashed objects and digests of other bytes
HeldIds == {sha[b] : b \in DOMAIN sha} \cup FakeIds

\* no id, one id, or two different ids in either order
IdLists == {<<>>} \cup {<<a>> : a \in HeldIds}
           \cup {ab \in HeldIds \X HeldIds : ab[1] # ab[2]}

IntentInputs ==
    {Intent(t, s, ps, <<>>) : t \in Timestamps, s \in Statements, ps \in IdLists}
    \cup {Intent(t, s, <<>>, im) : t \in Timestamps, s \in Statements, im \in ImpactLists}

DecisionInputs ==
    {DecisionRecord(i, t, "q1", <<>>) : i \in HeldIds, t \in Timestamps}

ConstraintInputs ==
    {Constraint(t, s, "active", i, None, <<"auth">>) :
        t \in Timestamps, s \in Statements, i \in HeldIds}

CodeBindingInputs ==
    {CodeBinding("src/auth/mod.rs", sym, "function", i) :
        sym \in {None, Some("validate")}, i \in HeldIds}

AgentOperationInputs ==
    {AgentOperation("agent", "sess", t, <<>>) : t \in Timestamps}

ChangeSetInputs ==
    {ChangeSet(t, "abc123", is) :
        t \in Timestamps, is \in {<<>>} \cup {<<a>> : a \in HeldIds}}

ObjectInputs ==
    IntentInputs \cup DecisionInputs \cup ConstraintInputs \cup CodeBindingInputs
    \cup AgentOperationInputs \cup ChangeSetInputs

\* the names the calls of Spec are made with
RepoStreamNames == {Main, <<"a">>, <<".", ".", "/", "evil">>}

StreamRefInputs == {StreamRef(n, None, "t0", None) : n \in RepoStreamNames}

----------------------------------------------------------------------------
(* One Repository handle, every call running to completion                  *)

Procs == {"p1", "p2"}

Init ==
    /\ files = InitFiles
    /\ dirs = InitDirs
    /\ objects = <<>>
    /\ persists = <<>>
    /\ indexes = NoIndexes
    /\ sha = <<>>
    /\ locks = [p \in Procs |-> NoLock]
    /\ walker = NoWalker
    /\ yielded = <<>>
    /\ calls = [p \in Procs |-> NoCall]
    /\ indexdir = NoIndexDir

\* the file system, the object store and the current state as the calls see them
Fs == FS(files, dirs)

Odb == Store(objects, persists)

\* the outcome of Repository::create_* on obj in the current state
CreateOutcome(obj) ==
    LET hashed(bytes) == Create(Fs, Odb, indexes, sha, obj, Digest(sha, bytes))
    IN hashed(CanonicalBytes(obj))

\* the oracle after the call: it has answered for the object's bytes when the call got
\* as far as hashing them
CreateOracle(obj) ==
    LET hashed(bytes) == Oracle(sha, bytes, Digest(sha, bytes))
    IN IF ReachesHash(Odb, sha, obj) THEN hashed(CanonicalBytes(obj)) ELSE sha

\* the state that a call with outcome r leaves, within the bounds of the model
Returned(r, table) ==
    /\ \A bytes \in DOMAIN table : table[bytes] \in IdPool
    /\ Cardinality(DOMAIN r.store.objects) <= MaxObjects
    /\ LongestEntryList(r.idx) <= MaxEntries
    /\ sha' = table
    /\ files' = r.fs.files
    /\ dirs' = r.fs.dirs
    /\ objects' = r.store.objects
    /\ persists' = r.store.persists
    /\ indexes' = r.idx
    /\ UNCHANGED <<locks, walker, yielded, calls, indexdir>>

\* a Repository::create_* call on obj
DoCreate(obj) == Returned(CreateOutcome(obj), CreateOracle(obj))

CreateIntentOp == \E obj \in IntentInputs : DoCreate(obj)

CreateDecisionOp == \E obj \in DecisionInputs : DoCreate(obj)

CreateConstraintOp == \E obj \in ConstraintInputs : DoCreate(obj)

CreateCodeBindingOp == \E obj \in CodeBindingInputs : DoCreate(obj)

CreateAgentOperationOp == \E obj \in AgentOperationInputs : DoCreate(obj)

CreateChangeSetOp == \E obj \in ChangeSetInputs : DoCreate(obj)

Next ==
    \/ CreateIntentOp
    \/ CreateDecisionOp
    \/ CreateConstraintOp
    \/ CreateCodeBindingOp
    \/ CreateAgentOperationOp
    \/ CreateChangeSetOp

Spec == Init /\ [][Next]_vars

----------------------------------------------------------------------------
(* The reference store under a Repository: the RefStore calls and           *)
(* create_intent, which moves the tip of the current stream                 *)

\* a RefStore call with outcome r
DoRef(r) ==
    /\ files' = r.fs.files
    /\ dirs' = r.fs.dirs
    /\ UNCHANGED <<objects, persists, indexes, sha, locks, walker, yielded, calls, indexdir>>

SetHeadOp == \E name \in RepoStreamNames : DoRef(SetHead(Fs, name))

CreateStreamOp == \E stream \in StreamRefInputs : DoRef(CreateStream(Fs, stream))

WriteStreamOp == \E stream \in StreamRefInputs : DoRef(WriteStream(Fs, stream))

DeleteStreamOp == \E name \in RepoStreamNames : DoRef(DeleteStream(Fs, name))

NextRefs ==
    \/ SetHeadOp
    \/ CreateStreamOp
    \/ WriteStreamOp
    \/ DeleteStreamOp
    \/ CreateIntentOp

SpecRefs == Init /\ [][NextRefs]_vars

----------------------------------------------------------------------------
(* The indexes: the creators whose objects are indexed, and rebuild_all      *)

RebuildAllOp ==
    /\ indexes' = RebuildAll(Odb, sha)
    /\ UNCHANGED <<files, dirs, objects, persists, sha, locks, walker, yielded, calls, indexdir>>

\* the index files are removed, or overwritten with text that does not parse, from
\* outside: load_index then gives the default, the empty map
LoseIndexesOp ==
    /\ indexes # NoIndexes
    /\ indexes' = NoIndexes
    /\ UNCHANGED <<files, dirs, objects, persists, sha, locks, walker, yielded, calls, indexdir>>

NextIndex ==
    \/ CreateIntentOp
    \/ CreateConstraintOp
    \/ CreateCodeBindingOp
    \/ RebuildAllOp

SpecIndex == Init /\ [][NextIndex]_vars

NextRebuild ==
    \/ CreateIntentOp
    \/ CreateConstraintOp
    \/ CreateCodeBindingOp
    \/ RebuildAllOp
    \/ LoseIndexesOp

SpecRebuild == Init /\ [][NextRebuild]_vars

----------------------------------------------------------------------------
(* The reference store used directly, with names of every kind: flat and    *)
(* hierarchical ones, one that ends in whitespace, and names that break    *)
(* each rule of validate_stream_name.  SpecList has the calls that add and *)
(* remove streams and the one that moves HEAD, but not write_stream.       *)

ValidNames ==
    {Main, <<"a">>, <<"a", " ">>, <<"a", "/", "b">>, <<"a", "/", "c">>, <<"b">>}

InvalidNames ==
    {<<>>, <<"a", "NUL">>, <<".", "a">>, <<"a", ".", ".", "b">>, <<".", ".", "/", "evil">>,
     <<"a", "/", "/", "b">>, <<"/", "a">>, <<"a", "/">>, <<"a", "/", ".", "b">>}

StreamNames == ValidNames \cup InvalidNames

CreatedAts == {"t1", "t2"}

NamedRefInputs == {StreamRef(n, None, t, None) : n \in StreamNames, t \in CreatedAts}

SetHeadCall == \E name \in StreamNames : DoRef(SetHead(Fs, name))

CreateStreamCall == \E stream \in NamedRefInputs : DoRef(CreateStream(Fs, stream))

WriteStreamCall == \E stream \in NamedRefInputs : DoRef(WriteStream(Fs, stream))

DeleteStreamCall == \E name \in StreamNames : DoRef(DeleteStream(Fs, name))

NextStreams ==
    \/ SetHeadCall
    \/ CreateStreamCall
    \/ WriteStreamCall
    \/ DeleteStreamCall

SpecStreams == Init /\ [][NextStreams]_vars

NextList ==
    \/ SetHeadCall
    \/ CreateStreamCall
    \/ DeleteStreamCall

SpecList == Init /\ [][NextList]_vars

----------------------------------------------------------------------------
(* Processes that use Lockfile directly.  acquire, write_all, commit and the *)
(* drop of a Lockfile are steps of their own, so the calls of the processes *)
(* interleave; a process has at most one Lockfile at a time.                *)

\* the targets the processes lock: HEAD, the ref file of the stream a/b, whose
\* directory acquire creates, and a path that is a directory, onto which the rename of
\* commit fails
LockTargets == {HeadPath, StreamPath(<<"a", "/", "b">>), StreamsDir}

LockData == {<<"d1">>}

\* the file system a Lockfile step leaves, and the Lockfile process p has after it
Locked(p, fs, lock) ==
    /\ files' = fs.files
    /\ dirs' = fs.dirs
    /\ locks' = [locks EXCEPT ![p] = lock]
    /\ UNCHANGED <<objects, persists, indexes, sha, walker, yielded, calls, indexdir>>

AcquireStep(p) ==
    /\ ~locks[p].file
    /\ \E target \in LockTargets :
           LET got(a) == Locked(p, a.fs, a.lock)
           IN got(Acquire(Fs, target))

WriteAllStep(p) ==
    /\ locks[p].file
    /\ locks[p].writes < MaxWrites
    /\ \E data \in LockData :
           Locked(p, WriteAll(Fs, locks[p], data).fs,
                  [locks[p] EXCEPT !.writes = locks[p].writes + 1])

\* commit consumes the Lockfile whether or not the rename succeeds
CommitStep(p) ==
    /\ locks[p].file
    /\ Locked(p, Commit(Fs, locks[p]).fs, NoLock)

DropStep(p) ==
    /\ locks[p].file
    /\ Locked(p, DropLock(Fs, locks[p]), NoLock)

NextLock ==
    \E p \in Procs :
        \/ AcquireStep(p)
        \/ WriteAllStep(p)
        \/ CommitStep(p)
        \/ DropStep(p)

SpecLock == Init /\ [][NextLock]_vars

----------------------------------------------------------------------------
(* The object database used directly: write stores any object, with no      *)
(* validation of the ids in it.  In SpecTamper intents are created through  *)
(* the Repository and the files of the objects directory are altered from   *)
(* outside, as the test read_detects_corrupted_object does.                 *)

\* the state that an ObjectDatabase::write with outcome w leaves
Written(w, table) ==
    /\ \A bytes \in DOMAIN table : table[bytes] \in IdPool
    /\ Cardinality(DOMAIN w.store.objects) <= MaxObjects
    /\ sha' = table
    /\ objects' = w.store.objects
    /\ persists' = w.store.persists
    /\ UNCHANGED <<files, dirs, indexes, locks, walker, yielded, calls, indexdir>>

\* the outcome of odb.write(obj) in the current state
WriteOutcome(obj) ==
    LET hashed(bytes) == OdbWrite(Odb, obj, Digest(sha, bytes))
    IN hashed(CanonicalBytes(obj))

\* the oracle once it has answered for the canonical bytes of obj
OracleWith(obj) ==
    LET hashed(bytes) == Oracle(sha, bytes, Digest(sha, bytes))
    IN hashed(CanonicalBytes(obj))

OdbWriteOp == \E obj \in ObjectInputs : Written(WriteOutcome(obj), OracleWith(obj))

NextOdb == OdbWriteOp

SpecOdb == Init /\ [][NextOdb]_vars

MaxAltered == 1     \* object files that hold altered bytes at most

\* what an altered object file can hold: the bytes with a byte appended, the bytes cut
\* short, nothing, the file of another object
Altered(bytes) ==
    {bytes \o <<<<"x", <<>>>>>>, SubSeq(bytes, 1, Len(bytes) - 1), <<>>}
    \cup {objects[q] : q \in DOMAIN objects}

\* the object files whose bytes do not hash to the id of their path
AlteredPaths(objs, table) == {path \in DOMAIN objs : ObjectPath(table[objs[path]]) # path}

\* an object file that holds what was written to it is overwritten from outside; the
\* oracle answers for the new bytes, which a later read hashes
TamperOp ==
    \E path \in DOMAIN objects \ AlteredPaths(objects, sha) :
        \E bytes \in Altered(objects[path]) \ {objects[path]} :
            /\ Digest(sha, bytes) \in IdPool
            /\ objects' = [objects EXCEPT ![path] = bytes]
            /\ sha' = Oracle(sha, bytes, Digest(sha, bytes))
            /\ Cardinality(AlteredPaths(objects', sha')) <= MaxAltered
            /\ UNCHANGED <<files, dirs, persists, indexes, locks, walker, yielded, calls, indexdir>>

NextTamper ==
    \/ CreateIntentOp
    \/ TamperOp

SpecTamper == Init /\ [][NextTamper]_vars

----------------------------------------------------------------------------
(* Walks over the intents of a Repository: create_intent builds the graph,  *)
(* walk_intents makes a walker and next() advances it.  In SpecWalkTamper   *)
(* object files are altered from outside as well.                           *)

MaxIntents == 4     \* intents a behaviour of the walking specifications stores at most

\* the state that a create_intent with outcome r leaves
IntentReturned(r, table) ==
    /\ \A bytes \in DOMAIN table : table[bytes] \in IdPool
    /\ Cardinality(DOMAIN r.store.objects) <= MaxIntents
    /\ LongestEntryList(r.idx) <= MaxEntries
    /\ sha' = table
    /\ files' = r.fs.files
    /\ dirs' = r.fs.dirs
    /\ objects' = r.store.objects
    /\ persists' = r.store.persists
    /\ indexes' = r.idx
    /\ UNCHANGED <<locks, walker, yielded, calls, indexdir>>

\* the intents of the walked graphs differ in their parents only
GraphIntentInputs ==
    {Intent(t, s, ps, <<>>) : t \in Timestamps, s \in Statements, ps \in IdLists}

GrowGraphOp ==
    \E obj \in GraphIntentInputs : IntentReturned(CreateOutcome(obj), CreateOracle(obj))

\* Repository::walk_intents(start)
WalkIntentsOp ==
    \E start \in HeldIds :
        /\ walker' = NewWalker(start)
        /\ yielded' = <<>>
        /\ UNCHANGED <<files, dirs, objects, persists, indexes, sha, locks, calls, indexdir>>

\* the walker and the items after a next() with outcome n
Advanced(n) ==
    /\ walker' = n.walker
    /\ yielded' = IF n.item = None THEN yielded ELSE Append(yielded, n.item[1])
    /\ UNCHANGED <<files, dirs, objects, persists, indexes, sha, locks, calls, indexdir>>

\* next() on the walker; on an empty queue it returns None and changes nothing
WalkerNextOp ==
    /\ walker.queue # <<>>
    /\ Advanced(WalkerNext(Odb, sha, walker))

NextWalk ==
    \/ GrowGraphOp
    \/ WalkIntentsOp
    \/ WalkerNextOp

SpecWalk == Init /\ [][NextWalk]_vars

NextWalkTamper ==
    \/ GrowGraphOp
    \/ TamperOp
    \/ WalkIntentsOp
    \/ WalkerNextOp

SpecWalkTamper == Init /\ [][NextWalkTamper]_vars

----------------------------------------------------------------------------
(* Processes that call ObjectDatabase::write, ObjectDatabase::read and      *)
(* IndexStore::update_for_object concurrently, each call in the steps that  *)
(* touch the file system.  The impact index is kept here as the files of    *)
(* the indexes directory (indexdir), since a step can leave bytes in them   *)
(* that are no index.                                                       *)

\* the objects the processes write and index: both have impacts
RaceObjects ==
    {Intent("t1", "s1", <<>>, <<"auth">>),
     Constraint("t1", "s1", "active", "x1", None, <<"auth">>)}

\* the state after a step of process p
Stepped(p, call, store, dir, table) ==
    /\ calls' = [calls EXCEPT ![p] = call]
    /\ objects' = store.objects
    /\ persists' = store.persists
    /\ indexdir' = dir
    /\ sha' = table
    /\ UNCHANGED <<files, dirs, indexes, locks, walker, yielded>>

\* the inodes that the file handles of the processes other than p are open on
HandlesBut(p) == {calls[q].handle : q \in {r \in Procs \ {p} : calls[r].handle # 0}}

WriteCallStep(p) ==
    /\ calls[p].pc = "idle"
    /\ \E obj \in RaceObjects :
           LET hashed(bytes, id) ==
                   Stepped(p, WriteBegin(Odb, obj, id), Odb, indexdir,
                           Oracle(sha, bytes, id))
           IN hashed(CanonicalBytes(obj), Digest(sha, CanonicalBytes(obj)))

CreateTempStep(p) ==
    /\ calls[p].op = "write" /\ calls[p].pc = "create"
    /\ LET made(r) == Stepped(p, r.call, r.store, indexdir, sha)
       IN made(CreateTemp(Odb, calls[p]))

WriteTempStep(p) ==
    /\ calls[p].op = "write" /\ calls[p].pc = "write"
    /\ Stepped(p, WriteTemp(calls[p]), Odb, indexdir, sha)

PersistStep(p) ==
    /\ calls[p].op = "write" /\ calls[p].pc = "persist"
    /\ LET made(r) == Stepped(p, r.call, r.store, indexdir, sha)
       IN made(PersistTemp(Odb, calls[p]))

\* odb.read(id) for an id that some bytes were hashed to; the oracle answers for the
\* bytes the read finds in the file
ReadStep(p) ==
    /\ calls[p].pc = "idle"
    /\ \E id \in {sha[b] : b \in DOMAIN sha} :
           LET hashed(table) == Stepped(p, ReadCall(Odb, table, id), Odb, indexdir, table)
               found(bytes) ==
                   /\ Digest(sha, bytes) \in IdPool
                   /\ hashed(Oracle(sha, bytes, Digest(sha, bytes)))
           IN IF OdbExists(Odb, id) THEN found(objects[ObjectPath(id)]) ELSE hashed(sha)

\* update_for_object(id, obj), id being the hash of the object's canonical bytes
UpdateCallStep(p) ==
    /\ calls[p].pc = "idle"
    /\ \E obj \in RaceObjects :
           LET begun(call, table) ==
                   /\ EntryCount(call.index, DOMAIN call.index) <= MaxEntries
                   /\ Stepped(p, call, Odb, indexdir, table)
               hashed(bytes, id) ==
                   begun(UpdateBegin(indexdir, id, obj), Oracle(sha, bytes, id))
           IN hashed(CanonicalBytes(obj), Digest(sha, CanonicalBytes(obj)))

CreateTmpStep(p) ==
    /\ calls[p].op = "update" /\ calls[p].pc = "create"
    /\ LET made(r) == Stepped(p, r.call, Odb, r.dir, sha)
       IN made(CreateTmp(indexdir, calls[p], HandlesBut(p)))

WriteTmpStep(p) ==
    /\ calls[p].op = "update" /\ calls[p].pc = "write"
    /\ LET made(r) == Stepped(p, r.call, Odb, r.dir, sha)
       IN made(WriteTmp(indexdir, calls[p]))

RenameStep(p) ==
    /\ calls[p].op = "update" /\ calls[p].pc = "rename"
    /\ LET made(r) == Stepped(p, [r.call EXCEPT !.handle = 0], Odb, r.dir, sha)
       IN made(RenameTmp(indexdir, calls[p], HandlesBut(p)))

\* the call returns to its caller
ReturnStep(p) ==
    /\ calls[p].pc = "done"
    /\ Stepped(p, NoCall, Odb, indexdir, sha)

NextRace ==
    \E p \in Procs :
        \/ WriteCallStep(p)
        \/ CreateTempStep(p)
        \/ WriteTempStep(p)
        \/ PersistStep(p)
        \/ ReadStep(p)
        \/ ReturnStep(p)

SpecRace == Init /\ [][NextRace]_vars

NextIndexRace ==
    \E p \in Procs :
        \/ UpdateCallStep(p)
        \/ CreateTmpStep(p)
        \/ WriteTmpStep(p)
        \/ RenameStep(p)
        \/ ReturnStep(p)

SpecIndexRace == Init /\ [][NextIndexRace]_vars

----------------------------------------------------------------------------
(* Processes that can terminate while they hold a Lockfile (a kill, an      *)
(* abort, a power loss: Drop does not run), next to the RefStore calls that *)
(* take the lock of HEAD or of a stream ref.                                *)

\* the streams whose refs the calls write: main, which Init has, and a/b, whose ref
\* file is a target of the Lockfile steps
LockedNames == {Main, <<"a", "/", "b">>}

LockedRefs == {StreamRef(n, None, "t1", None) : n \in LockedNames}

\* the process ends with its Lockfile live: the value is gone, the lock file is not
TerminateStep(p) ==
    /\ locks[p].file
    /\ Locked(p, Fs, NoLock)

\* what set_head and write_stream write into the lock file of a target
RefData(target) ==
    IF target = HeadPath THEN {<<HeadPrefix>> \o n \o <<"\n">> : n \in LockedNames}
    ELSE {RefToJson(r) : r \in {x \in LockedRefs : StreamPath(x.name) = target}}

\* the write_all of set_head and of write_stream
WriteRefStep(p) ==
    /\ locks[p].file
    /\ locks[p].writes = 0
    /\ \E data \in RefData(locks[p].target) :
           Locked(p, WriteAll(Fs, locks[p], data).fs, [locks[p] EXCEPT !.writes = 1])

LaterSetHead == \E name \in LockedNames : DoRef(SetHead(Fs, name))

LaterWriteStream == \E stream \in LockedRefs : DoRef(WriteStream(Fs, stream))

LaterUpdateTip == \E tip \in FakeIds : DoRef(UpdateCurrentTip(Fs, tip))

NextStale ==
    \/ \E p \in Procs :
           \/ AcquireStep(p)
           \/ WriteRefStep(p)
           \/ CommitStep(p)
           \/ DropStep(p)
           \/ TerminateStep(p)
    \/ LaterSetHead
    \/ LaterWriteStream
    \/ LaterUpdateTip

SpecStale == Init /\ [][NextStale]_vars

----------------------------------------------------------------------------
(* Constraints and the supersede command.  Time goes on between the calls:  *)
(* a constraint is created at t1 and superseded at t2.                      *)

MaxRevisions == 4   \* objects a behaviour with supersede stores at most

SupersedeStatements == {"s1", "s2", "s3"}

\* the outcome of `supersede old_id -s statement` at the time now
SupersedeOutcome(old_id, statement, now) ==
    Supersede(Fs, Odb, indexes, sha, old_id, statement, now)

\* the stored constraints that are older than now
OlderConstraints(now) ==
    LET older(obj) ==
            obj.type = "constraint" /\ TimeRank[obj.timestamp] < TimeRank[now]
    IN {id \in IdPool : OdbExists(Odb, id) /\ older(OdbRead(Odb, sha, id).obj)}

\* the state that the command with outcome r leaves
Superseded(r) ==
    /\ \A bytes \in DOMAIN r.table : r.table[bytes] \in IdPool
    /\ Cardinality(DOMAIN r.store.objects) <= MaxRevisions
    /\ sha' = r.table
    /\ files' = r.fs.files
    /\ dirs' = r.fs.dirs
    /\ objects' = r.store.objects
    /\ persists' = r.store.persists
    /\ indexes' = r.idx
    /\ UNCHANGED <<locks, walker, yielded, calls, indexdir>>

\* the ObjectIds of the pool that the oracle has not handed out; the command hashes two
\* objects
IdsLeft == Cardinality(IdPool) - Cardinality(DOMAIN sha)

SupersedeOp ==
    /\ IdsLeft >= 2
    /\ \E old_id \in OlderConstraints("t2") : \E statement \in SupersedeStatements :
           Superseded(SupersedeOutcome(old_id, statement, "t2"))

NextSupersede ==
    \/ CreateIntentOp
    \/ CreateConstraintOp
    \/ CreateCodeBindingOp
    \/ SupersedeOp

SpecSupersede == Init /\ [][NextSupersede]_vars

----------------------------------------------------------------------------
(* Properties of the reference store and of the typed creators *)

\* the stored object with ObjectId id decoded, NoObject when nothing is stored there
StoredObject(id) ==
    IF ObjectPath(id) \in DOMAIN objects
    THEN FromCanonicalBytes(objects[ObjectPath(id)]).obj
    ELSE NoObject

IsStoredIntent(id) == StoredObject(id).type = "intent"

\* the ids that a creator validates: the parents of an intent, the intent_id of a
\* decision record
CheckedRefs(obj) ==
    CASE obj.type = "intent" -> obj.parents
      [] obj.type = "decision_record" -> <<obj.intent_id>>
      [] OTHER -> <<>>

HasBadRef(obj) == \E i \in 1..Len(CheckedRefs(obj)) : ~IsStoredIntent(CheckedRefs(obj)[i])

FirstBadRef(obj) ==
    CheckedRefs(obj)[Min({i \in 1..Len(CheckedRefs(obj)) :
                             ~IsStoredIntent(CheckedRefs(obj)[i])})]

\* the call on obj leaves the reference store, the object store and the indexes alone
LeavesRepository(r) == r.fs = Fs /\ r.store = Odb /\ r.idx = indexes

\* the names of the streams that have a ref file
StreamsOf(fs) ==
    {SubSeq(p, Len(StreamsDir) + 2, Len(p)) :
        p \in {q \in DOMAIN fs.files : IsPrefix(StreamsDir \o <<"/">>, q)}}

\* C1: in every reachable state in which read_head() succeeds, read_stream of the
\* name it returns succeeds too, that is HEAD names a stream whose ref file exists
HeadNamesExistingStream ==
    ReadHead(Fs).res = "Ok" => ReadStream(Fs, ReadHead(Fs).name).res = "Ok"

\* C2 as stated: create_intent and create_decision fail with InvalidReference whenever
\* a validated id is not the id of a stored intent, and change nothing
BadRefIsInvalidReference ==
    \A obj \in IntentInputs \cup DecisionInputs :
        HasBadRef(obj) =>
            CreateOutcome(obj).res = "InvalidReference"
            /\ LeavesRepository(CreateOutcome(obj))

\* C2: create_intent and create_decision fail whenever a validated id is not the id
\* of a stored intent, with ObjectNotFound when the first such id has no stored
\* object and with InvalidReference when it is the id of an object of another type;
\* no object is written, no index entry is added and no stream tip changes
BadRefIsRejected ==
    \A obj \in IntentInputs \cup DecisionInputs :
        HasBadRef(obj) =>
            /\ CreateOutcome(obj).res =
                   (IF ObjectPath(FirstBadRef(obj)) \in DOMAIN objects
                    THEN "InvalidReference" ELSE "ObjectNotFound")
            /\ LeavesRepository(CreateOutcome(obj))

\* a state in which create_intent is called with a missing parent before a parent of
\* another type, and with them the other way round
BadRefWitness ==
    \E obj \in IntentInputs :
        /\ Len(obj.parents) = 2
        /\ ObjectPath(obj.parents[1]) \notin DOMAIN objects
        /\ StoredObject(obj.parents[2]).type = "constraint"
        /\ CreateOutcome(obj).res = "ObjectNotFound"
        /\ CreateOutcome(Intent(obj.timestamp, obj.statement,
                                <<obj.parents[2], obj.parents[1]>>, obj.impacts)).res
               = "InvalidReference"

\* C3: the intent_id of every stored decision record and every parent of every stored
\* intent is the id of a stored object whose tag is intent
TypedReferences ==
    \A path \in DOMAIN objects :
        LET refs == CheckedRefs(FromCanonicalBytes(objects[path]).obj)
        IN \A i \in 1..Len(refs) : IsStoredIntent(refs[i])

\* a state that stores a decision record
TypedReferencesWitness ==
    \E path \in DOMAIN objects :
        FromCanonicalBytes(objects[path]).obj.type = "decision_record"

\* C4: a successful create_intent returns an id that is the tip of the current stream
\* afterwards; HEAD, the name, created_at and description of the current stream and
\* the ref of every other stream are as before
CreateIntentMovesCurrentTip ==
    \A obj \in IntentInputs :
        LET r == CreateOutcome(obj)
            before == CurrentStream(Fs)
            after == CurrentStream(r.fs)
        IN r.res = "Ok" =>
              /\ after.res = "Ok"
              /\ after.ref.tip = Some(r.id)
              /\ ReadHead(r.fs) = ReadHead(Fs)
              /\ r.fs.files[HeadPath] = files[HeadPath]
              /\ before.res = "Ok"
              /\ after.ref.name = before.ref.name
              /\ after.ref.created_at = before.ref.created_at
              /\ after.ref.description = before.ref.description
              /\ StreamsOf(r.fs) = StreamsOf(Fs)
              /\ \A n \in StreamsOf(Fs) \ {ReadHead(Fs).name} :
                     ReadStream(r.fs, n) = ReadStream(Fs, n)

\* a state in which HEAD names the stream a, whose tip a create_intent has set, and
\* the stream main has a ref with another tip
CreateIntentWitness ==
    /\ ReadHead(Fs).name = <<"a">>
    /\ CurrentStream(Fs).res = "Ok"
    /\ CurrentStream(Fs).ref.tip # None
    /\ IsStoredIntent(CurrentStream(Fs).ref.tip[1])
    /\ ReadStream(Fs, Main).res = "Ok"
    /\ ReadStream(Fs, Main).ref.tip # CurrentStream(Fs).ref.tip

----------------------------------------------------------------------------
(* Properties of Lockfile *)

\* the live Lockfiles on a target: acquired, neither committed nor dropped
Holders(target) == {p \in Procs : locks[p].file /\ locks[p].target = target}

\* C5: no two live Lockfiles have the same target; a target has a live Lockfile only
\* while its lock file exists; and acquire of a target whose lock file exists fails
\* with LockConflict, while acquire of a target whose lock file does not exist
\* succeeds
LockIsExclusive ==
    \A target \in LockTargets :
        /\ Cardinality(Holders(target)) <= 1
        /\ Holders(target) # {} => IsFile(Fs, LockPath(target))
        /\ Acquire(Fs, target).res =
               (IF PathExists(Fs, LockPath(target)) THEN "LockConflict" ELSE "Ok")

\* a state in which one process holds the lock on HEAD, the other has none, and an
\* acquire of HEAD fails with LockConflict
LockIsExclusiveWitness ==
    /\ Holders(HeadPath) = {"p1"}
    /\ ~locks["p2"].file
    /\ Acquire(Fs, HeadPath).res = "LockConflict"

\* the content of the file at path, NoFile when there is none
Content(fs, path) == IF IsFile(fs, path) THEN fs.files[path] ELSE NoFile

----------------------------------------------------------------------------
(* Properties of the object database *)

\* C8: for every object, a second write returns the id of the first and leaves the
\* store as the first left it: the file is not persisted again and holds the same bytes
WriteIsIdempotent ==
    \A obj \in ObjectInputs :
        LET first == WriteOutcome(obj)
            second == OdbWrite(first.store, obj, Digest(OracleWith(obj), CanonicalBytes(obj)))
        IN /\ second.id = first.id
           /\ second.store = first.store
           /\ first.store.persists[ObjectPath(first.id)] = 1

\* a state that stores an object a caller writes again
WriteIsIdempotentWitness ==
    \E obj \in ObjectInputs :
        /\ CanonicalBytes(obj) \in DOMAIN sha
        /\ ObjectPath(sha[CanonicalBytes(obj)]) \in DOMAIN objects
        /\ WriteOutcome(obj).store = Odb

\* the two leading hex digits of id, then the other 62
PathOfId(id) == <<SubSeq(Hex(id), 1, 2), SubSeq(Hex(id), 3, Len(Hex(id)))>>

\* the ObjectId whose bytes the oracle was asked: the bytes that hash to id
HashedAs(id) == CHOOSE bytes \in DOMAIN sha : sha[bytes] = id

\* C9: read(id) returns an object only if the bytes stored at the path of id hash to
\* id, and when the stored bytes are not the bytes that hash to id it fails with
\* IntegrityError, expected being id and actual the hash of the stored bytes
ReadChecksIntegrity ==
    \A id \in IdPool \cup FakeIds :
        LET r == OdbRead(Odb, sha, id)
        IN /\ r.res = "Ok" =>
                  /\ ObjectPath(id) \in DOMAIN objects
                  /\ sha[objects[ObjectPath(id)]] = id
           /\ (ObjectPath(id) \in DOMAIN objects
               /\ objects[ObjectPath(id)] # HashedAs(id)) =>
                  /\ r.res = "IntegrityError"
                  /\ r.obj = NoObject
                  /\ r.expected = id
                  /\ r.actual = sha[objects[ObjectPath(id)]]
                  /\ r.actual # id

\* a state in which one object file holds bytes that are not those written to it,
\* and another is as written and reads back
ReadChecksIntegrityWitness ==
    \E id, other \in IdPool :
        /\ ObjectPath(id) \in DOMAIN objects
        /\ objects[ObjectPath(id)] # HashedAs(id)
        /\ OdbRead(Odb, sha, id).res = "IntegrityError"
        /\ OdbRead(Odb, sha, other).res = "Ok"

\* C10: every object file is at the path made of the two leading hex digits and the
\* other hex digits of the hash of its bytes, and for every object read(write(o))
\* returns o
PathIsHashAndReadReturnsWritten ==
    /\ \A path \in DOMAIN objects :
           /\ objects[path] \in DOMAIN sha
           /\ path = PathOfId(sha[objects[path]])
    /\ \A obj \in ObjectInputs :
           LET r == OdbRead(WriteOutcome(obj).store, OracleWith(obj), WriteOutcome(obj).id)
           IN r.res = "Ok" /\ r.obj = obj

\* a state that stores two objects, one of them with no symbol, no impacts or no ids
PathIsHashWitness ==
    /\ Cardinality(DOMAIN objects) >= 2
    /\ \E obj \in ObjectInputs :
           /\ ObjectPath(WriteOutcome(obj).id) \in DOMAIN objects
           /\ Len(Members(obj)) < Cardinality(DOMAIN obj) - 1
           /\ OdbRead(Odb, sha, WriteOutcome(obj).id).obj = obj

----------------------------------------------------------------------------
(* Properties of the creators when they fail *)

\* C11: whenever a Repository::create_* call returns an error, the reference store,
\* the object store and the indexes are as they were before the call: no object was
\* stored, no index entry was added and no stream tip moved
FailedCreateChangesNothing ==
    \A obj \in ObjectInputs :
        CreateOutcome(obj).res # "Ok" => LeavesRepository(CreateOutcome(obj))

----------------------------------------------------------------------------
(* Properties of walk_intents *)

\* the parents of the stored intent with ObjectId id
ParentSet(id) ==
    LET of(obj) == IF obj.type = "intent"
                   THEN {obj.parents[i] : i \in 1..Len(obj.parents)} ELSE {}
    IN of(StoredObject(id))

\* the ids that at most k parent links away from tip lead to
RECURSIVE Within(_, _)
Within(tip, k) ==
    LET step(near) == near \cup UNION {ParentSet(x) : x \in near}
    IN IF k = 0 THEN {tip} ELSE step(Within(tip, k - 1))

\* tip and its ancestors
AncestorsOrSelf(tip) == Within(tip, Cardinality(IdPool))

\* the length of the shortest chain of parent links from tip to id
Distance(tip, id) == Min({k \in 0..Cardinality(IdPool) : id \in Within(tip, k)})

\* the id that the walk in progress started from
WalkTip ==
    IF yielded # <<>> THEN yielded[1].id
    ELSE IF walker.queue # <<>> THEN walker.queue[1] ELSE ""

\* the ids of the items yielded so far, then the ids on the queue
WalkIds == [k \in 1..Len(yielded) |-> yielded[k].id] \o walker.queue

\* C12: for every stored intent, the first item of a walk is the intent itself; and
\* in every state of a walk from a stored intent tip, the items yielded so far are
\* stored intents with their ids, no id was yielded or queued twice, every id yielded
\* or queued is tip or an ancestor of tip, the yielded ids are in the order of their
\* distance from tip, and once the queue is empty every ancestor of tip was yielded
\* and next() returns None
WalkYieldsAncestorsBreadthFirst ==
    /\ \A start \in IdPool :
           IsStoredIntent(start) =>
               WalkerNext(Odb, sha, NewWalker(start)).item
                   = Some(WalkItem("Ok", start, StoredObject(start)))
    /\ (WalkIds # <<>> /\ IsStoredIntent(WalkTip)) =>
           /\ \A k \in 1..Len(yielded) :
                  yielded[k] = WalkItem("Ok", yielded[k].id, StoredObject(yielded[k].id))
           /\ \A i, j \in 1..Len(WalkIds) : i # j => WalkIds[i] # WalkIds[j]
           /\ \A i \in 1..Len(WalkIds) : WalkIds[i] \in AncestorsOrSelf(WalkTip)
           /\ \A i, j \in 1..Len(yielded) :
                  i < j => Distance(WalkTip, yielded[i].id) <= Distance(WalkTip, yielded[j].id)
           /\ walker.queue = <<>> =>
                  /\ {yielded[k].id : k \in 1..Len(yielded)} = AncestorsOrSelf(WalkTip)
                  /\ WalkerNext(Odb, sha, walker).item = None

\* a finished walk from an intent with two parents, one of which is a parent of the
\* other: the ancestor that two parent paths lead to was yielded last
WalkWitness ==
    /\ walker.queue = <<>>
    /\ Len(yielded) = 3
    /\ StoredObject(yielded[1].id).parents = <<yielded[2].id, yielded[3].id>>
    /\ StoredObject(yielded[2].id).parents = <<yielded[3].id>>

\* C13: an error item is the last item of its walk: when next() has yielded the
\* error of an id that could not be read, every later next() on the walker returns
\* None
ErrorEndsWalk ==
    \A k \in 1..Len(yielded) :
        yielded[k].res # "Ok" =>
            /\ k = Len(yielded)
            /\ WalkerNext(Odb, sha, walker).item = None

----------------------------------------------------------------------------
(* Properties of the intent graph *)

\* the ancestors of id: what its parents and their parents lead to
AncestorsOf(id) == UNION {AncestorsOrSelf(p) : p \in ParentSet(id)}

\* C14: no stored intent is its own ancestor, and a step that stores an intent stores
\* one whose parents were all stored intents before the step
ParentsPrecedeIntents ==
    /\ [](\A id \in IdPool : IsStoredIntent(id) => id \notin AncestorsOf(id))
    /\ [][\A id \in IdPool :
              (ObjectPath(id) \notin DOMAIN objects /\ IsStoredIntent(id)') =>
                  \A p \in ParentSet(id)' : IsStoredIntent(p)]_vars

\* a state that stores an intent with two parents, one of which has the other as its
\* parent, and a fourth intent on top of it
IntentGraphWitness ==
    \E id, top \in IdPool :
        /\ IsStoredIntent(id)
        /\ Len(StoredObject(id).parents) = 2
        /\ StoredObject(id).parents[2] \in ParentSet(StoredObject(id).parents[1])
        /\ IsStoredIntent(top)
        /\ id \in ParentSet(top)

----------------------------------------------------------------------------
(* Properties of HEAD and of the stream names *)

\* C15: for every name n, once set_head(n) has succeeded delete_stream(n) returns an
\* error and leaves every file and directory of the reference store as it is
CurrentStreamIsKept ==
    \A n \in StreamNames :
        LET deleted(h, d) == h.res = "Ok" => (d.res # "Ok" /\ d.fs = h.fs)
            set(h) == deleted(h, DeleteStream(h.fs, n))
        IN set(SetHead(Fs, n))

\* C16: for every name n that validate_stream_name accepts and that has a stream
\* file, after a set_head(n) that succeeds read_head() returns n and
\* current_stream() returns the ref stored for n
HeadRoundTrip ==
    \A n \in StreamNames :
        LET set(h) ==
                (ValidateStreamName(n) = "Ok" /\ IsFile(Fs, StreamPath(n)) /\ h.res = "Ok") =>
                    /\ ReadHead(h.fs) = [res |-> "Ok", name |-> n]
                    /\ CurrentStream(h.fs).res = "Ok"
                    /\ CurrentStream(h.fs) = ReadStream(Fs, n)
        IN set(SetHead(Fs, n))

\* the names of the grammar: not empty, no NUL, no dot at the start, no two dots in a
\* row, no slash at the start, at the end or after a slash (an empty segment), and no
\* dot after a slash (a segment that begins with a dot)
InGrammar(name) ==
    /\ name # <<>>
    /\ \A i \in 1..Len(name) : name[i] # "NUL"
    /\ name[1] # "."
    /\ \A i \in 1..(Len(name) - 1) : ~(name[i] = "." /\ name[i + 1] = ".")
    /\ name[1] # "/"
    /\ name[Len(name)] # "/"
    /\ \A i \in 1..(Len(name) - 1) : ~(name[i] = "/" /\ name[i + 1] = "/")
    /\ \A i \in 1..(Len(name) - 1) : ~(name[i] = "/" /\ name[i + 1] = ".")

\* C17: set_head, write_stream, create_stream and delete_stream return
\* InvalidStreamName exactly for the names that are not in the grammar, and then
\* leave every file and directory as it is
NamesOfGrammarAreAccepted ==
    \A stream \in NamedRefInputs :
        LET rejected(r) ==
                /\ (r.res = "InvalidStreamName") <=> ~InGrammar(stream.name)
                /\ r.res = "InvalidStreamName" => r.fs = Fs
        IN /\ rejected(SetHead(Fs, stream.name))
           /\ rejected(WriteStream(Fs, stream))
           /\ rejected(CreateStream(Fs, stream))
           /\ rejected(DeleteStream(Fs, stream.name))

\* a state with a hierarchical stream, in which names of both kinds are given to the
\* four calls
NamesWitness ==
    /\ IsFile(Fs, StreamPath(<<"a", "/", "b">>))
    /\ ReadHead(Fs).name = <<"b">>
    /\ \E n \in StreamNames : ~InGrammar(n) /\ CreateStream(Fs, StreamRef(n, None, "t1", None)).fs = Fs
    /\ \E n \in StreamNames : InGrammar(n) /\ CreateStream(Fs, StreamRef(n, None, "t1", None)).res = "Ok"

\* C18: create_stream of a name whose stream exists fails with StreamExists and
\* leaves the reference store, and with it the ref stored for the name, as it is
CreateStreamKeepsExisting ==
    \A stream \in NamedRefInputs :
        LET created(r) ==
                ReadStream(Fs, stream.name).res = "Ok" =>
                    /\ r.res = "StreamExists"
                    /\ r.fs = Fs
                    /\ ReadStream(r.fs, stream.name) = ReadStream(Fs, stream.name)
        IN created(CreateStream(Fs, stream))

\* a state in which the stream a exists with a ref that differs from the one
\* create_stream is called with
CreateStreamWitness ==
    /\ ReadStream(Fs, <<"a">>).res = "Ok"
    /\ ReadStream(Fs, <<"a">>).ref.created_at = "t2"
    /\ CreateStream(Fs, StreamRef(<<"a">>, None, "t1", None)).res = "StreamExists"

\* the names in a list
NameSet(names) == {names[i] : i \in 1..Len(names)}

\* C19: list_streams() returns the names in ascending byte order, none twice; a name
\* is in the list exactly if its stream can be read; a create_stream that succeeds
\* adds its name to the list and a delete_stream that succeeds removes its name,
\* while a call that fails, and set_head, leave the list as it is
ListIsTheExistingStreams ==
    LET listed(names) ==
            /\ \A i, j \in 1..Len(names) :
                   i < j => (NameLeq(names[i], names[j]) /\ names[i] # names[j])
            /\ NameSet(names) \subseteq ValidNames
            /\ \A n \in StreamNames : n \in NameSet(names) <=> ReadStream(Fs, n).res = "Ok"
            /\ \A stream \in NamedRefInputs :
                   LET created(r) ==
                           IF r.res = "Ok"
                           THEN /\ stream.name \notin NameSet(names)
                                /\ NameSet(ListStreams(r.fs)) = NameSet(names) \cup {stream.name}
                           ELSE ListStreams(r.fs) = names
                   IN created(CreateStream(Fs, stream))
            /\ \A n \in StreamNames :
                   LET deleted(r) ==
                           IF r.res = "Ok"
                           THEN /\ n \in NameSet(names)
                                /\ NameSet(ListStreams(r.fs)) = NameSet(names) \ {n}
                           ELSE ListStreams(r.fs) = names
                   IN /\ deleted(DeleteStream(Fs, n))
                      /\ ListStreams(SetHead(Fs, n).fs) = names
    IN listed(ListStreams(Fs))

\* a state in which main was deleted, a, a/b and a/c were created and a and a/c were
\* deleted: the list is a/b, then b
ListWitness ==
    /\ ListStreams(Fs) = <<<<"a", "/", "b">>, <<"b">>>>
    /\ ReadHead(Fs).name = <<"b">>

----------------------------------------------------------------------------
(* Properties of the indexes *)

\* how often entry is in the list of key
Occurrences(index, key, entry) ==
    Cardinality({i \in 1..Len(Lookup(index, key)) : Lookup(index, key)[i] = entry})

\* two index files with the same keys and, under each key, the same entries as often
SameEntries(x, y) ==
    /\ DOMAIN x = DOMAIN y
    /\ \A key \in DOMAIN x :
           \A i \in 1..Len(x[key]) : Occurrences(x, key, x[key][i]) = Occurrences(y, key, x[key][i])
    /\ \A key \in DOMAIN x : Len(x[key]) = Len(y[key])

\* C20: the index files that rebuild_all makes from the object store have the content
\* that the update_for_object calls of the creators have left, up to the order of the
\* entries under each key
RebuildMatchesIncremental ==
    LET same(rebuilt) ==
            /\ SameEntries(rebuilt.impact, indexes.impact)
            /\ SameEntries(rebuilt.codepath, indexes.codepath)
            /\ SameEntries(rebuilt.symbols, indexes.symbols)
    IN same(RebuildAll(Odb, sha))

\* the ids of the entries in a list
EntryIds(entries) == {entries[i].id : i \in 1..Len(entries)}

\* the keys that are looked up: those of the objects and one that no object has
ImpactKeys == {"auth", "billing"}

PathKeys == {"src/auth/mod.rs", "src/none.rs"}

SymbolKeys == {"validate", "none"}

\* the stored objects with a type among types for which has(object) holds
StoredWith(types, has(_)) ==
    {id \in IdPool : StoredObject(id).type \in types /\ has(StoredObject(id))}

\* C21: whatever the index files hold, after rebuild_all by_impact(k) has one entry
\* for each stored intent and constraint whose impacts contain k and no other entry,
\* by_path(k) one for each stored code binding with path k, by_symbol(k) one for each
\* with symbol k, every entry carrying the type of its object; and the counts that
\* rebuild_all returns are the numbers of keys of the three indexes
RebuildRestoresIndexes ==
    LET exactly(entries, ids) ==
            /\ EntryIds(entries) = ids
            /\ Len(entries) = Cardinality(ids)
            /\ \A i \in 1..Len(entries) :
                   entries[i].object_type = StoredObject(entries[i].id).type
        rebuilt(idx) ==
            /\ \A k \in ImpactKeys :
                   exactly(ByImpact(idx, k),
                           StoredWith({"intent", "constraint"},
                                      LAMBDA o : \E i \in 1..Len(o.impacts) : o.impacts[i] = k))
            /\ \A k \in PathKeys :
                   exactly(ByPath(idx, k), StoredWith({"code_binding"}, LAMBDA o : o.path = k))
            /\ \A k \in SymbolKeys :
                   exactly(BySymbol(idx, k),
                           StoredWith({"code_binding"}, LAMBDA o : o.symbol = Some(k)))
            /\ DOMAIN idx.impact \subseteq ImpactKeys
            /\ DOMAIN idx.codepath \subseteq PathKeys
            /\ DOMAIN idx.symbols \subseteq SymbolKeys
            /\ RebuildCounts(idx) =
                   <<Cardinality({k \in ImpactKeys : ByImpact(idx, k) # <<>>}),
                     Cardinality({k \in PathKeys : ByPath(idx, k) # <<>>}),
                     Cardinality({k \in SymbolKeys : BySymbol(idx, k) # <<>>})>>
    IN rebuilt(RebuildAll(Odb, sha))

\* a state that stores a constraint and a code binding, and in which the index files
\* hold an entry twice or lack one, so that rebuild_all changes them
RebuildWitness ==
    /\ \E id \in IdPool : StoredObject(id).type = "constraint"
    /\ \E id \in IdPool : StoredObject(id).type = "code_binding"
    /\ RebuildAll(Odb, sha) # indexes
    /\ RebuildCounts(RebuildAll(Odb, sha)) = <<1, 1, 1>>

\* every list of the index file old is the beginning of the list of new with its key
Extends(new, old) ==
    \A key \in DOMAIN old : key \in DOMAIN new /\ IsPrefix(old[key], new[key])

\* C22: after a create_intent or create_constraint that succeeds, by_impact(t) has
\* the entry of the returned id with the type of the object for every t of the
\* impacts; after a create_code_binding by_path(path) has the entry of the returned
\* id, and by_symbol(symbol) has it when the binding has a symbol; and every entry
\* that an index had before the call is still in it
CreatorsExtendIndexes ==
    \A obj \in IntentInputs \cup ConstraintInputs \cup CodeBindingInputs :
        LET has(entries, id) ==
                \E i \in 1..Len(entries) :
                    entries[i].id = id /\ entries[i].object_type = obj.type
            created(r) ==
                r.res = "Ok" =>
                    /\ obj.type \in {"intent", "constraint"} =>
                           \A i \in 1..Len(obj.impacts) :
                               has(ByImpact(r.idx, obj.impacts[i]), r.id)
                    /\ obj.type = "code_binding" =>
                           /\ has(ByPath(r.idx, obj.path), r.id)
                           /\ obj.symbol # None => has(BySymbol(r.idx, obj.symbol[1]), r.id)
                    /\ Extends(r.idx.impact, indexes.impact)
                    /\ Extends(r.idx.codepath, indexes.codepath)
                    /\ Extends(r.idx.symbols, indexes.symbols)
        IN created(CreateOutcome(obj))

\* a state in which by_impact of one tag has the entries of an intent and of a
\* constraint, one created after the other
ExtendedIndexWitness ==
    /\ Len(ByImpact(indexes, "auth")) = 2
    /\ {ByImpact(indexes, "auth")[i].object_type : i \in 1..2} = {"intent", "constraint"}
    /\ \A i \in 1..2 :
           StoredObject(ByImpact(indexes, "auth")[i].id).type
               = ByImpact(indexes, "auth")[i].object_type

----------------------------------------------------------------------------
(* Concurrent calls *)

\* the processes whose call of operation op has finished and not yet returned
Done(op) == {p \in Procs : calls[p].op = op /\ calls[p].pc = "done"}

\* the paths of the object files that hold bytes
FilesHolding(bytes) == {path \in DOMAIN objects : objects[path] = bytes}

\* C23: under every interleaving of the steps of two processes, two finished writes of
\* the same object have returned the same id; once a write has finished there is
\* exactly one object file with the canonical bytes of its object, the file of the id it
\* returned; and a finished read has returned ObjectNotFound or the complete object
\* whose bytes hash to the id read, never an IntegrityError
ConcurrentWritesAgree ==
    /\ \A p \in Done("write") : \A q \in Done("write") :
           calls[p].object = calls[q].object => calls[p].ret = calls[q].ret
    /\ \A p \in Done("write") :
           /\ calls[p].ret = <<"Ok", sha[CanonicalBytes(calls[p].object)]>>
           /\ FilesHolding(CanonicalBytes(calls[p].object)) = {ObjectPath(calls[p].ret[2])}
           /\ ObjectPath(calls[p].ret[2]) \in DOMAIN objects
    /\ \A p \in Done("read") :
           \/ calls[p].ret = <<"ObjectNotFound", NoObject>>
           \/ /\ calls[p].ret[1] = "Ok"
              /\ calls[p].ret[2] \in RaceObjects
              /\ sha[CanonicalBytes(calls[p].ret[2])] = calls[p].id

\* both processes wrote the same object, each passed the exists check before the other
\* persisted, both temp files were renamed onto the path, and both calls have finished
ConcurrentWritesWitness ==
    /\ Done("write") = Procs
    /\ \A p \in Procs : calls[p].object = calls["p1"].object
    /\ \E path \in DOMAIN persists : persists[path] = 2

\* the bytes a reader of impact.json gets: None when there is no such file
ImpactBytes ==
    IF ImpactPath \in DOMAIN indexdir.names
    THEN Some(indexdir.data[indexdir.names[ImpactPath]]) ELSE None

\* C24: under every interleaving of concurrent writers, what a reader finds in a file is
\* a complete content: an object file holds the canonical bytes of an object, and
\* impact.json holds the JSON text of an index, never the empty or torn bytes of a
\* file that is still being written.  (HEAD and the stream refs change only by the
\* rename of commit, which TargetChangesOnlyByCommit is about.)
ReadersSeeCompleteFiles ==
    /\ \A path \in DOMAIN objects :
           \E obj \in RaceObjects : objects[path] = CanonicalBytes(obj)
    /\ ImpactBytes # None => Len(ImpactBytes[1]) = 1

----------------------------------------------------------------------------
(* Stale locks *)

\* the lock file of the target exists and no live Lockfile owns it
Stale(target) == IsFile(Fs, LockPath(target)) /\ Holders(target) = {}

\* C25: when a process that holds the lock of HEAD or of a stream ref terminates
\* without commit or drop, the lock file is still there; while the lock file of a target
\* has no live Lockfile, every set_head (for HEAD), every write_stream of the stream
\* and every update_current_tip while it is the current stream fails with
\* LockConflict; and no step of the core removes such a lock file
StaleLockBlocksWriters ==
    /\ [](\A target \in LockTargets :
              Stale(target) =>
                  /\ target = HeadPath =>
                         \A name \in LockedNames : SetHead(Fs, name).res = "LockConflict"
                  /\ \A stream \in LockedRefs :
                         StreamPath(stream.name) = target =>
                             /\ WriteStream(Fs, stream).res = "LockConflict"
                             /\ (CurrentStream(Fs).res = "Ok"
                                 /\ ReadHead(Fs).name = stream.name) =>
                                    \A tip \in FakeIds :
                                        UpdateCurrentTip(Fs, tip).res = "LockConflict")
    /\ [][\A target \in LockTargets :
              /\ Stale(target) => IsFile(FS(files', dirs'), LockPath(target))
              /\ \A p \in Holders(target) :
                     (locks'[p] = NoLock /\ files' = files) =>
                         /\ IsFile(FS(files', dirs'), LockPath(target))
                         /\ \A q \in Procs : ~(locks'[q].file /\ locks'[q].target = target)]_vars

\* the holders of the locks of HEAD and of the ref of a/b have terminated, and a/b is
\* the current stream with a readable ref
StaleLockWitness ==
    /\ Stale(HeadPath)
    /\ Stale(StreamPath(<<"a", "/", "b">>))
    /\ CurrentStream(Fs).res = "Ok"
    /\ ReadHead(Fs).name = <<"a", "/", "b">>

\* C26: when a Lockfile that write_all(b) was called on once or more is committed, the
\* target holds exactly b
WriteAllIsIdempotent ==
    [][\A p \in Procs :
           (/\ locks[p].file
            /\ locks[p].writes >= 1
            /\ locks'[p] = NoLock
            /\ Commit(Fs, locks[p]).res = "Ok"
            /\ files' = Commit(Fs, locks[p]).fs.files)
           => files'[locks[p].target] \in LockData]_vars

----------------------------------------------------------------------------
(* Prefix resolution *)

\* the hex prefixes resolve_prefix is called with: the first 0 to 6 digits and all 64
\* digits of every ObjectId, stored or not, and digits in upper case
PrefixInputs ==
    {SubSeq(Hex(id), 1, k) : id \in IdPool \cup FakeIds, k \in (0..6) \cup {HexLen}}
    \cup {<<"A", "B", "1", "2">>}

\* the ids of the object files
StoredIds == {id \in IdPool \cup FakeIds : OdbExists(Odb, id)}

\* the stored ids whose hex starts with the prefix
StartingWith(prefix) == {id \in StoredIds : IsPrefix(prefix, Hex(id))}

\* C27: for a hex prefix of length 4 or more, resolve_prefix returns the stored id that
\* starts with it when there is exactly one, fails with ObjectNotFound when there is
\* none and with AmbiguousPrefix and count n when there are n > 1; a shorter prefix is
\* rejected whatever is stored
PrefixResolvesByCount ==
    \A prefix \in PrefixInputs :
        LET is(r, ids) ==
                IF Len(prefix) < 4 THEN r.res # "Ok"
                ELSE /\ Cardinality(ids) = 1 => r.res = "Ok" /\ ids = {r.id}
                     /\ ids = {} => r.res = "ObjectNotFound"
                     /\ Cardinality(ids) > 1 =>
                            r.res = "AmbiguousPrefix" /\ r.count = Cardinality(ids)
        IN is(ResolvePrefix(Odb, prefix), StartingWith(prefix))

\* two ids that share their first four digits are stored: the four digits are
\* ambiguous, five digits resolve each of them
PrefixWitness ==
    /\ {"i1", "i2"} \subseteq StoredIds
    /\ ResolvePrefix(Odb, SubSeq(Hex("i1"), 1, 4)).res = "AmbiguousPrefix"
    /\ ResolvePrefix(Odb, SubSeq(Hex("i2"), 1, 5)) = [res |-> "Ok", id |-> "i2", count |-> 0]

----------------------------------------------------------------------------
(* Creators that do not validate *)

UncheckedInputs ==
    ConstraintInputs \cup CodeBindingInputs \cup AgentOperationInputs \cup ChangeSetInputs

\* the ids that an object of these types refers to
UncheckedRefs(obj) ==
    CASE obj.type = "constraint" -> {obj.source_intent}
      [] obj.type = "code_binding" -> {obj.bound_object}
      [] obj.type = "change_set" -> {obj.intents[i] : i \in 1..Len(obj.intents)}
      [] OTHER -> {}

\* C28: create_constraint, create_code_binding, create_agent_operation and
\* create_change_set succeed for every object, whether or not the ids in it are stored;
\* the object read back under the returned id is the object given, ids included; HEAD
\* and every stream ref are as before the call.  And a step that changes HEAD or a ref
\* is a create_intent
UncheckedCreatorsLeaveRefs ==
    /\ [](\A obj \in UncheckedInputs :
              LET read(r, back) ==
                      /\ r.res = "Ok"
                      /\ back.res = "Ok"
                      /\ back.obj = obj
                      /\ r.fs = Fs
                  made(r) == read(r, OdbRead(r.store, CreateOracle(obj), r.id))
              IN made(CreateOutcome(obj)))
    /\ [][files' # files =>
              \E obj \in IntentInputs :
                  /\ CreateOutcome(obj).res = "Ok"
                  /\ files' = CreateOutcome(obj).fs.files
                  /\ objects' = CreateOutcome(obj).store.objects]_vars

\* a constraint, a code binding or a change set is stored that refers to an id that is
\* not stored, and the tip of the current stream is still absent
UncheckedWitness ==
    /\ \E path \in DOMAIN objects :
           LET stored(obj) ==
                   /\ obj.type \in {"constraint", "code_binding", "change_set"}
                   /\ \E id \in UncheckedRefs(obj) : ~OdbExists(Odb, id)
           IN stored(FromCanonicalBytes(objects[path]).obj)
    /\ CurrentStream(Fs).res = "Ok"
    /\ CurrentStream(Fs).ref.tip = None

----------------------------------------------------------------------------
(* Queries over the indexes *)

\* the pairs <<id(c), c>> for the entries, in their order, whose object is a stored
\* code binding bound to a stored constraint c
RECURSIVE Resolving(_)
Resolving(entries) ==
    LET constraint(id) ==
            IF StoredObject(id).type = "constraint" THEN <<<<id, StoredObject(id)>>>>
            ELSE <<>>
        binding(cb) ==
            IF cb.type = "code_binding" THEN constraint(cb.bound_object) ELSE <<>>
    IN IF entries = <<>> THEN <<>>
       ELSE binding(StoredObject(Head(entries).id)) \o Resolving(Tail(entries))

\* the same pairs the same number of times
SamePairs(a, b) ==
    /\ Len(a) = Len(b)
    /\ \A x \in {a[i] : i \in 1..Len(a)} \cup {b[i] : i \in 1..Len(b)} :
           Cardinality({i \in 1..Len(a) : a[i] = x})
               = Cardinality({i \in 1..Len(b) : b[i] = x})

\* C29: query_constraints_by_file(path) succeeds and returns the pair (id(c), c) once
\* for every entry of the codepath index under path whose code binding is bound to a
\* stored constraint c, and nothing for an entry whose binding is bound to a missing
\* object or to an object of another type; query_constraints_by_symbol does so over
\* the symbol index
QueriesFollowBindings ==
    /\ \A path \in PathKeys :
           LET is(q) == q.res = "Ok" /\ SamePairs(q.results, Resolving(ByPath(indexes, path)))
           IN is(QueryConstraintsByFile(Odb, sha, indexes, path))
    /\ \A symbol \in SymbolKeys :
           LET is(q) ==
                   q.res = "Ok" /\ SamePairs(q.results, Resolving(BySymbol(indexes, symbol)))
           IN is(QueryConstraintsBySymbol(Odb, sha, indexes, symbol))

\* a constraint and a code binding with a symbol that is bound to it are stored and
\* indexed: both queries return the constraint
QueriesWitness ==
    /\ Len(QueryConstraintsByFile(Odb, sha, indexes, "src/auth/mod.rs").results) = 1
    /\ Len(QueryConstraintsBySymbol(Odb, sha, indexes, "validate").results) = 1

----------------------------------------------------------------------------
(* Supersede *)

\* the ids in the result of a query
ResultIds(results) == {results[i][1] : i \in 1..Len(results)}

\* C30: after `supersede S -s T` has succeeded on an active constraint S, the query for
\* active constraints returns the new constraint, with the statement T, and does not
\* return S; the query for superseded constraints returns a record with the statement
\* of S, the status superseded and superseded_by = the id of the new constraint
SupersededIsNotActive ==
    IdsLeft >= 2 =>
        \A old_id \in OlderConstraints("t2") : \A statement \in SupersedeStatements :
            LET shows(r, old, active, superseded) ==
                    r.res = "Ok" =>
                        /\ r.new_id \in ResultIds(active)
                        /\ old_id \notin ResultIds(active)
                        /\ \E i \in 1..Len(superseded) :
                               /\ superseded[i][2].statement = old.statement
                               /\ superseded[i][2].status = "superseded"
                               /\ superseded[i][2].superseded_by = Some(r.new_id)
                after(r) ==
                    shows(r, StoredObject(old_id),
                          QueryConstraints(r.store, r.table, None, "active"),
                          QueryConstraints(r.store, r.table, None, "superseded"))
            IN after(SupersedeOutcome(old_id, statement, "t2"))

----------------------------------------------------------------------------
(* The commands of the CLI (telos-cli, commands/intent.rs, log.rs): each    *)
(* command is one process that opens the repository and runs to its end     *)

\* what a command that stores objects leaves
Ran(res, id, fs, store, idx, table) ==
    [res |-> res, id |-> id, fs |-> fs, store |-> store, idx |-> idx, table |-> table]

\* an intent command that gives the new intent no parent
IntentCommandOrphan(fs, store, idx, table, statement, now) ==
    LET created(r, hashed) == Ran(r.res, r.id, r.fs, r.store, r.idx, hashed)
        made(intent, bytes) ==
            created(CreateIntent(fs, store, idx, table, intent, Digest(table, bytes)),
                    IF ReachesHash(store, table, intent)
                    THEN Oracle(table, bytes, Digest(table, bytes)) ELSE table)
        built(intent) == made(intent, CanonicalBytes(intent))
        current(cur) ==
            IF cur.res # "Ok" THEN Ran(cur.res, "", fs, store, idx, table)
            ELSE built(Intent(now, statement, <<>>, <<>>))
    IN current(CurrentStream(fs))

\* `telos intent -s statement`: the parents of the new intent are the tip of the
\* current stream, none when the stream has no tip; then create_intent
IntentCommand(fs, store, idx, table, statement, now) ==
    LET created(r, hashed) == Ran(r.res, r.id, r.fs, r.store, r.idx, hashed)
        made(intent, bytes) ==
            created(CreateIntent(fs, store, idx, table, intent, Digest(table, bytes)),
                    IF ReachesHash(store, table, intent)
                    THEN Oracle(table, bytes, Digest(table, bytes)) ELSE table)
        built(intent) == made(intent, CanonicalBytes(intent))
        current(cur) ==
            IF cur.res # "Ok" THEN Ran(cur.res, "", fs, store, idx, table)
            ELSE built(Intent(now, statement, cur.ref.tip, <<>>))
    IN current(CurrentStream(fs))

\* the loop of the log command over walk_intents: it ends after max_count items, at
\* the end of the walk, or with the first item that is an error
RECURSIVE LogLoop(_, _, _, _, _)
LogLoop(store, table, w, ids, max_count) ==
    LET item(n) ==
            IF n.item = None THEN [res |-> "Ok", ids |-> ids]
            ELSE IF n.item[1].res # "Ok" THEN [res |-> n.item[1].res, ids |-> ids]
            ELSE LogLoop(store, table, n.walker, Append(ids, n.item[1].id), max_count)
    IN IF Len(ids) >= max_count THEN [res |-> "Ok", ids |-> ids]
       ELSE item(WalkerNext(store, table, w))

\* `telos log -n max_count`: the ids it prints, in the order of the lines
LogCommand(fs, store, table, max_count) ==
    LET current(cur) ==
            IF cur.res # "Ok" THEN [res |-> cur.res, ids |-> <<>>]
            ELSE IF cur.ref.tip = None THEN [res |-> "Ok", ids |-> <<>>]
            ELSE LogLoop(store, table, NewWalker(cur.ref.tip[1]), <<>>, max_count)
    IN current(CurrentStream(fs))

\* the statements and the clock readings of the intent commands
LogStatements == {"s1", "s2", "s3"}

LogTimes == {"t1", "t2"}

\* more lines than a log of the model has
WholeLog == MaxIntents + 1

IntentCommandOp ==
    /\ IdsLeft >= 1
    /\ \E statement \in LogStatements : \E now \in LogTimes :
           LET ran(r) == IntentReturned(r, r.table)
           IN ran(IntentCommand(Fs, Odb, indexes, sha, statement, now))

LogCommandOp ==
    /\ yielded' = LogCommand(Fs, Odb, sha, WholeLog).ids
    /\ yielded' # yielded
    /\ UNCHANGED <<files, dirs, objects, persists, indexes, sha, locks, walker, calls, indexdir>>

NextLog ==
    \/ IntentCommandOp
    \/ LogCommandOp

SpecLog == Init /\ [][NextLog]_vars

----------------------------------------------------------------------------
(* Properties of the commands *)

\* the ids the oracle has handed out, the latest first
RECURSIVE NewestFirst(_)
NewestFirst(n) == IF n = 0 THEN <<>> ELSE <<IdOrder[n]>> \o NewestFirst(n - 1)

\* C31: after any number of intent commands run one after the other on one stream,
\* the log lists every intent that was created exactly once, the newest first; and
\* the next intent command succeeds, gives its intent the tip of the stream as its
\* only parent (none when there is no tip), and puts it in front of the log
LogListsEveryIntent ==
    LET listed(log) ==
            /\ log.res = "Ok"
            /\ log.ids = NewestFirst(Cardinality(DOMAIN objects))
            /\ \A id \in IdPool : OdbExists(Odb, id) <=> \E i \in 1..Len(log.ids) : log.ids[i] = id
            /\ IdsLeft >= 1 =>
                   \A statement \in LogStatements : \A now \in LogTimes :
                       LET ran(r) ==
                               /\ r.res = "Ok"
                               /\ OdbRead(r.store, r.table, r.id).obj.parents
                                      = CurrentStream(Fs).ref.tip
                               /\ CurrentStream(r.fs).ref.tip = Some(r.id)
                               /\ LogCommand(r.fs, r.store, r.table, WholeLog).ids
                                      = <<r.id>> \o log.ids
                       IN ran(IntentCommand(Fs, Odb, indexes, sha, statement, now))
    IN listed(LogCommand(Fs, Odb, sha, WholeLog))

\* three intents were created on main and the log command has listed them
LogWitness ==
    /\ yielded = <<"i3", "i2", "i1">>
    /\ CurrentStream(Fs).ref.tip = Some("i3")
    /\ StoredObject("i3").parents = <<"i2">>
    /\ StoredObject("i1").parents = <<>>

----------------------------------------------------------------------------
(* Repository::init and Repository::open (repository.rs), on a root in which *)
(* .telos may not exist yet.  The paths of the model are relative to .telos; *)
(* the empty path among the directories stands for .telos itself.           *)

TelosDir == <<>>

ConfigPath == <<"config.json">>

\* telos_dir.exists()
TelosDirExists(fs) == TelosDir \in fs.dirs \/ TelosDir \in DOMAIN fs.files

\* an init that does not look for an existing .telos
RepositoryInitOver(fs, now) ==
    LET main(c) == [res |-> c.res, fs |-> c.fs]
        head(h) ==
            IF h.res # "Ok" THEN [res |-> h.res, fs |-> h.fs]
            ELSE main(CreateStream(h.fs, StreamRef(Main, None, now,
                                                   Some("Default intent stream"))))
        config(f) == head(SetHead(PutFile(f, ConfigPath, <<"version", now>>), Main))
        made(d) == config(FS(d.files, d.dirs \cup {TelosDir}))
    IN made(CreateDirAll(CreateDirAll(CreateDirAll(CreateDirAll(fs,
                <<"objects">>).fs, StreamsDir).fs, <<"logs", "/", "streams">>).fs,
                <<"indexes">>).fs)

\* Repository::init(root): RepositoryExists when .telos exists; else the directories,
\* config.json, HEAD -> main and the stream main without a tip
RepositoryInit(fs, now) ==
    LET main(c) == [res |-> c.res, fs |-> c.fs]
        head(h) ==
            IF h.res # "Ok" THEN [res |-> h.res, fs |-> h.fs]
            ELSE main(CreateStream(h.fs, StreamRef(Main, None, now,
                                                   Some("Default intent stream"))))
        config(f) == head(SetHead(PutFile(f, ConfigPath, <<"version", now>>), Main))
        made(d) == config(FS(d.files, d.dirs \cup {TelosDir}))
    IN IF TelosDirExists(fs) THEN [res |-> "RepositoryExists", fs |-> fs]
       ELSE made(CreateDirAll(CreateDirAll(CreateDirAll(CreateDirAll(fs,
                <<"objects">>).fs, StreamsDir).fs, <<"logs", "/", "streams">>).fs,
                <<"indexes">>).fs)

\* Repository::open(root)
RepositoryOpen(fs) == IF TelosDirExists(fs) THEN "Ok" ELSE "RepositoryNotFound"

\* a root without .telos, or with a .telos directory that something else has made
InitRoot ==
    /\ files = <<>>
    /\ dirs \in {{}, {TelosDir}}
    /\ objects = <<>>
    /\ persists = <<>>
    /\ indexes = NoIndexes
    /\ sha = <<>>
    /\ locks = [p \in Procs |-> NoLock]
    /\ walker = NoWalker
    /\ yielded = <<>>
    /\ calls = [p \in Procs |-> NoCall]
    /\ indexdir = NoIndexDir

InitTimes == {"t0"}

RepositoryInitOp ==
    \E now \in InitTimes :
        /\ RepositoryInit(Fs, now).fs # Fs
        /\ DoRef(RepositoryInit(Fs, now))

\* the calls on an opened repository
OpenedOp ==
    /\ RepositoryOpen(Fs) = "Ok"
    /\ \/ CreateIntentOp
       \/ SetHeadOp
       \/ CreateStreamOp
       \/ DeleteStreamOp

NextInit ==
    \/ RepositoryInitOp
    \/ OpenedOp

SpecInit == InitRoot /\ [][NextInit]_vars

\* C32: Repository::init on a root that contains .telos fails with RepositoryExists
\* and leaves HEAD, the stream refs and every other file and directory, those of the
\* object store and the indexes included, as they are: it returns before its first write
InitKeepsExistingRepository ==
    \A now \in InitTimes :
        LET again(r) ==
                TelosDirExists(Fs) =>
                    /\ r.res = "RepositoryExists"
                    /\ r.fs = Fs
                    /\ ReadHead(r.fs) = ReadHead(Fs)
                    /\ ListStreams(r.fs) = ListStreams(Fs)
        IN again(RepositoryInit(Fs, now))

\* a repository that was initialised, in which an intent is the tip of main, the
\* stream a exists and is current; init is called on it again
InitWitness ==
    /\ TelosDirExists(Fs)
    /\ ReadStream(Fs, Main).res = "Ok"
    /\ ReadStream(Fs, Main).ref.tip # None
    /\ ReadStream(Fs, Main).ref.created_at = "t0"
    /\ ReadHead(Fs).name = <<"a">>
    /\ ReadStream(Fs, <<"a">>).res = "Ok"
    /\ RepositoryInit(Fs, "t0").res = "RepositoryExists"

----------------------------------------------------------------------------
(* canonical_serialize on any serde_json value (serialize.rs): a value is a  *)
(* string, an array of values, or an object whose members are kept in the  *)
(* order in which the map they come from yields them                       *)

Value(kind, s, members, items) ==
    [kind |-> kind, s |-> s, members |-> members, items |-> items]

JString(s) == Value("string", s, <<>>, <<>>)

JObject(members) == Value("object", "", members, <<>>)

JArray(items) == Value("array", "", <<>>, items)

\* the member names of the values, in ascending byte order
NameOrder == <<"a", "b">>

NameRank == [key \in {NameOrder[i] : i \in 1..Len(NameOrder)} |->
                CHOOSE i \in 1..Len(NameOrder) : NameOrder[i] = key]

\* the position of the member with the least name
LeastMember(members) ==
    CHOOSE i \in 1..Len(members) :
        \A j \in 1..Len(members) : NameRank[members[i][1]] <= NameRank[members[j][1]]

\* a sort_value that sorts the members of the outermost object only
RECURSIVE SortOutermost(_)
SortOutermost(v) ==
    LET rest(least) ==
            SubSeq(v.members, 1, least - 1) \o SubSeq(v.members, least + 1, Len(v.members))
        first(least) ==
            JObject(<<v.members[least]>> \o SortOutermost(JObject(rest(least))).members)
    IN IF v.kind = "object" /\ v.members # <<>> THEN first(LeastMember(v.members)) ELSE v

\* sort_value: the members of every object collected into a BTreeMap, each value
\* sorted in turn; the items of an array sorted in place
RECURSIVE SortJson(_)
SortJson(v) ==
    LET rest(least) ==
            SubSeq(v.members, 1, least - 1) \o SubSeq(v.members, least + 1, Len(v.members))
        first(least) ==
            JObject(<<<<v.members[least][1], SortJson(v.members[least][2])>>>>
                    \o SortJson(JObject(rest(least))).members)
    IN IF v.kind = "object"
       THEN IF v.members = <<>> THEN v ELSE first(LeastMember(v.members))
       ELSE IF v.kind = "array"
       THEN JArray([i \in 1..Len(v.items) |-> SortJson(v.items[i])])
       ELSE v

\* serde_json::to_string: the compact text, members and items in the order of the value
RECURSIVE ToJsonString(_)
ToJsonString(v) ==
    LET RECURSIVE members(_)
        members(ms) ==
            IF ms = <<>> THEN <<>>
            ELSE (IF Len(ms) < Len(v.members) THEN <<",">> ELSE <<>>)
                 \o <<Head(ms)[1], ":">> \o ToJsonString(Head(ms)[2]) \o members(Tail(ms))
        RECURSIVE items(_)
        items(is) ==
            IF is = <<>> THEN <<>>
            ELSE (IF Len(is) < Len(v.items) THEN <<",">> ELSE <<>>)
                 \o ToJsonString(Head(is)) \o items(Tail(is))
    IN IF v.kind = "object" THEN <<"{">> \o members(v.members) \o <<"}">>
       ELSE IF v.kind = "array" THEN <<"[">> \o items(v.items) \o <<"]">>
       ELSE <<v.s>>

\* canonical_serialize(type_tag, value): the tag, a 0 byte, the text of the sorted value
CanonicalSerialize(type_tag, v) == <<type_tag, "NUL">> \o ToJsonString(SortJson(v))

\* the objects with one or two members named by NameOrder, in either order, with
\* values of the set
ObjectsOver(values) ==
    {JObject(<<>>)}
    \cup {JObject(<<<<k, x>>>>) : k \in {"a", "b"}, x \in values}
    \cup {JObject(<<<<k[1], x>>, <<k[2], y>>>>) :
              k \in {<<"a", "b">>, <<"b", "a">>}, x \in values, y \in values}

\* the values inside the serialized values: a string, an object in both orders of its
\* members, arrays in both orders of their items, arrays of the object
InnerValues ==
    {JString("1"),
     JObject(<<<<"a", JString("1")>>, <<"b", JString("2")>>>>),
     JObject(<<<<"b", JString("2")>>, <<"a", JString("1")>>>>),
     JArray(<<JString("1"), JString("2")>>),
     JArray(<<JString("2"), JString("1")>>),
     JArray(<<JObject(<<<<"a", JString("1")>>, <<"b", JString("2")>>>>)>>),
     JArray(<<JObject(<<<<"b", JString("2")>>, <<"a", JString("1")>>>>)>>)}

SerializedValues == ObjectsOver(InnerValues)

SerializedTags == {"intent"}

\* two callers, each with a tag and a value
InitSerialize ==
    /\ files = InitFiles
    /\ dirs = InitDirs
    /\ objects = <<>>
    /\ persists = <<>>
    /\ indexes = NoIndexes
    /\ sha = <<>>
    /\ locks = [p \in Procs |-> NoLock]
    /\ walker = NoWalker
    /\ yielded = <<>>
    /\ \E x \in SerializedValues : \E y \in SerializedValues : \E t \in SerializedTags :
           calls = [p \in Procs |->
                       [NoCall EXCEPT !.op = "content_hash", !.pc = "start",
                                      !.object = [type |-> t,
                                                  value |-> IF p = "p1" THEN x ELSE y]]]
    /\ indexdir = NoIndexDir

\* content_hash: canonical_serialize(type_tag, value)
SerializeStep(p) ==
    /\ calls[p].pc = "start"
    /\ calls' = [calls EXCEPT ![p].pc = "serialized",
                              ![p].ret = CanonicalSerialize(calls[p].object.type,
                                                            calls[p].object.value)]
    /\ UNCHANGED <<files, dirs, objects, persists, indexes, sha, locks, walker, yielded,
                   indexdir>>

\* content_hash: ObjectId::hash(&bytes)
HashStep(p) ==
    /\ calls[p].pc = "serialized"
    /\ sha' = Oracle(sha, calls[p].ret, Digest(sha, calls[p].ret))
    /\ calls' = [calls EXCEPT ![p].pc = "done", ![p].id = Digest(sha, calls[p].ret)]
    /\ UNCHANGED <<files, dirs, objects, persists, indexes, locks, walker, yielded,
                   indexdir>>

NextSerialize == \E p \in Procs : SerializeStep(p) \/ HashStep(p)

SpecSerialize == InitSerialize /\ [][NextSerialize]_vars

\* equal as records: strings that are the same, arrays with equal items at every
\* position, objects with the same names and equal values under each name
RECURSIVE SameValue(_, _)
SameValue(x, y) ==
    LET names(v) == {v.members[i][1] : i \in 1..Len(v.members)}
        get(v, k) == v.members[CHOOSE i \in 1..Len(v.members) : v.members[i][1] = k][2]
    IN /\ x.kind = y.kind
       /\ x.s = y.s
       /\ Len(x.items) = Len(y.items)
       /\ \A i \in 1..Len(x.items) : SameValue(x.items[i], y.items[i])
       /\ Len(x.members) = Len(y.members)
       /\ names(x) = names(y)
       /\ \A k \in names(x) : SameValue(get(x, k), get(y, k))

\* the names of every object of the value ascend, at every depth
RECURSIVE NamesAscend(_)
NamesAscend(v) ==
    /\ \A i \in 1..(Len(v.members) - 1) :
           NameRank[v.members[i][1]] < NameRank[v.members[i + 1][1]]
    /\ \A i \in 1..Len(v.members) : NamesAscend(v.members[i][2])
    /\ \A i \in 1..Len(v.items) : NamesAscend(v.items[i])

\* C33: canonical_serialize is a function of the tag and the value: for two values
\* that are equal as records, whatever the order of the members of their objects at
\* any depth, it gives the same bytes, and content_hash gives the same id; the bytes
\* are the tag, a 0 byte and the text of the value with the names of every object in
\* ascending order and the items of every array in their order
SerializeIsCanonical ==
    LET x == calls["p1"].object.value
        y == calls["p2"].object.value
    IN /\ (\A p \in Procs : calls[p].pc \in {"serialized", "done"}) =>
              /\ SameValue(x, y) => calls["p1"].ret = calls["p2"].ret
              /\ \A p \in Procs :
                     /\ calls[p].ret = CanonicalSerialize(calls[p].object.type,
                                                          calls[p].object.value)
                     /\ SubSeq(calls[p].ret, 1, 2) = <<calls[p].object.type, "NUL">>
              /\ NamesAscend(SortJson(x))
              /\ SameValue(SortJson(x), x)
              /\ \A k \in {x.members[i][1] : i \in 1..Len(x.members)} :
                     \A i \in 1..Len(x.members) : \A j \in 1..Len(x.members) :
                         (x.members[i][1] = k /\ SortJson(x).members[j][1] = k
                          /\ x.members[i][2].kind = "array") =>
                             Len(SortJson(x).members[j][2].items) = Len(x.members[i][2].items)
       /\ (\A p \in Procs : calls[p].pc = "done") =>
              (SameValue(x, y) => calls["p1"].id = calls["p2"].id)

\* two values that differ in the order of the members of the outer object and of an
\* object inside an array have been serialized and hashed to one id
SerializeWitness ==
    /\ calls["p1"].pc = "done"
    /\ calls["p2"].pc = "done"
    /\ calls["p1"].object.value.members # calls["p2"].object.value.members
    /\ Len(calls["p1"].object.value.members) = 2
    /\ Len(calls["p2"].object.value.members) = 2
    /\ calls["p1"].object.value.members[1][1] # calls["p2"].object.value.members[1][1]
    /\ calls["p1"].object.value.members[1][2].kind = "array"
    /\ Len(calls["p1"].object.value.members[1][2].items) = 1
    /\ calls["p1"].object.value.members[1][2].items[1].kind = "object"
    /\ calls["p1"].object.value.members[1][2] # calls["p2"].object.value.members[2][2]
    /\ SameValue(calls["p1"].object.value, calls["p2"].object.value)
    /\ calls["p1"].id = calls["p2"].id

----------------------------------------------------------------------------
(* create_intent in steps, the stream commands (commands/stream.rs), and a   *)
(* process that dies between two steps                                      *)

Progress(call, fs, store, idx, table) ==
    [call |-> call, fs |-> fs, store |-> store, idx |-> idx, table |-> table]

\* a create_intent that moves the tip before it writes the object
CreateIntentTipFirst(call, fs, store, idx, table) ==
    LET id == Digest(table, CanonicalBytes(call.object))
    IN CASE call.pc = "validated" ->
              Progress([call EXCEPT !.pc = "written", !.id = id],
                       UpdateCurrentTip(fs, id).fs, store, idx,
                       Oracle(table, CanonicalBytes(call.object), id))
         [] call.pc = "written" ->
              Progress([call EXCEPT !.pc = "indexed"], fs, store,
                       UpdateForObject(idx, call.id, call.object), table)
         [] call.pc = "indexed" ->
              Progress(NoCall, fs, OdbWrite(store, call.object, call.id).store, idx, table)

\* the next statement of Repository::create_intent after the parents were read:
\* odb.write, then indexes.update_for_object, then refs.update_current_tip
CreateIntentStep(call, fs, store, idx, table) ==
    LET id == Digest(table, CanonicalBytes(call.object))
    IN CASE call.pc = "validated" ->
              Progress([call EXCEPT !.pc = "written", !.id = id],
                       fs, OdbWrite(store, call.object, id).store, idx,
                       Oracle(table, CanonicalBytes(call.object), id))
         [] call.pc = "written" ->
              Progress([call EXCEPT !.pc = "indexed"], fs, store,
                       UpdateForObject(idx, call.id, call.object), table)
         [] call.pc = "indexed" ->
              Progress(NoCall, UpdateCurrentTip(fs, call.id).fs, store, idx, table)

\* `telos stream create name`: the new stream starts at the tip of the current one
StreamCreate(fs, name, now) ==
    LET current(cur) ==
            IF cur.res # "Ok" THEN [res |-> cur.res, fs |-> fs]
            ELSE CreateStream(fs, StreamRef(name, cur.ref.tip, now, None))
    IN current(CurrentStream(fs))

\* `telos stream switch name`: the stream is read, then HEAD is set
StreamSwitch(fs, name) ==
    LET read(r) == IF r.res # "Ok" THEN [res |-> r.res, fs |-> fs] ELSE SetHead(fs, name)
    IN read(ReadStream(fs, name))

\* `telos stream delete name`
StreamDelete(fs, name) == DeleteStream(fs, name)

\* the state after a step of process p
Progressed(p, r) ==
    /\ Cardinality(DOMAIN r.store.objects) <= MaxObjects
    /\ LongestEntryList(r.idx) <= MaxEntries
    /\ calls' = [calls EXCEPT ![p] = r.call]
    /\ files' = r.fs.files
    /\ dirs' = r.fs.dirs
    /\ objects' = r.store.objects
    /\ persists' = r.store.persists
    /\ indexes' = r.idx
    /\ sha' = r.table
    /\ UNCHANGED <<locks, walker, yielded, indexdir>>

\* the intents of the calls in steps: no parent or one, or an impact
SteppedIntents ==
    {Intent("t1", "s1", ps, <<>>) : ps \in {<<>>} \cup {<<a>> : a \in HeldIds}}
    \cup {Intent("t1", "s1", <<>>, <<"auth">>)}

\* the streams of the stream commands
CommandStreamNames == {Main, <<"a">>}

\* create_intent is called and has read the parents of the intent
IntentCallStep(p) ==
    /\ RepositoryOpen(Fs) = "Ok"
    /\ calls[p] = NoCall
    /\ IdsLeft >= 1
    /\ \E intent \in SteppedIntents :
           /\ ValidateIntentRefs(Odb, sha, intent.parents) = "Ok"
           /\ Progressed(p, Progress([NoCall EXCEPT !.op = "create_intent",
                                                    !.pc = "validated",
                                                    !.object = intent],
                                     Fs, Odb, indexes, sha))

IntentStep(p) ==
    /\ calls[p].op = "create_intent"
    /\ Progressed(p, CreateIntentStep(calls[p], Fs, Odb, indexes, sha))

\* the process dies between two statements of create_intent
CrashStep(p) ==
    /\ calls[p].op = "create_intent"
    /\ Progressed(p, Progress(NoCall, Fs, Odb, indexes, sha))

StreamCommandStep ==
    /\ RepositoryOpen(Fs) = "Ok"
    /\ \E name \in CommandStreamNames :
           \/ DoRef(StreamCreate(Fs, name, "t1"))
           \/ DoRef(StreamSwitch(Fs, name))
           \/ DoRef(StreamDelete(Fs, name))

NextTip ==
    \/ IntentCallStep("p1")
    \/ IntentStep("p1")
    \/ CrashStep("p1")
    \/ StreamCommandStep

\* the repository that Repository::init has made in a root without .telos
InitRepository ==
    /\ files = RepositoryInit(FS(<<>>, {}), "t0").fs.files
    /\ dirs = RepositoryInit(FS(<<>>, {}), "t0").fs.dirs
    /\ objects = <<>>
    /\ persists = <<>>
    /\ indexes = NoIndexes
    /\ sha = <<>>
    /\ locks = [p \in Procs |-> NoLock]
    /\ walker = NoWalker
    /\ yielded = <<>>
    /\ calls = [p \in Procs |-> NoCall]
    /\ indexdir = NoIndexDir

SpecTip == InitRepository /\ [][NextTip]_vars

\* C34: in every state that Repository::init, create_intent step by step, a process
\* that dies after any of the steps, and the stream commands lead to, the tip of every
\* stream that can be read is absent or the id of a stored intent
TipIsStored ==
    \A name \in CommandStreamNames \cup NameSet(ListStreams(Fs)) :
        LET stored(r) ==
                (r.res = "Ok" /\ r.ref.tip # None) =>
                    /\ OdbExists(Odb, r.ref.tip[1])
                    /\ OdbRead(Odb, sha, r.ref.tip[1]).res = "Ok"
                    /\ OdbRead(Odb, sha, r.ref.tip[1]).obj.type = "intent"
        IN stored(ReadStream(Fs, name))

\* an intent is the tip of main and of the stream a that was created from it, while a
\* second create_intent has written its object and not yet moved the tip
TipWitness ==
    /\ ReadStream(Fs, Main).res = "Ok"
    /\ ReadStream(Fs, <<"a">>).res = "Ok"
    /\ ReadStream(Fs, <<"a">>).ref.tip = Some("i1")
    /\ ReadStream(Fs, Main).ref.tip = Some("i1")
    /\ \E p \in Procs : calls[p].pc = "written" /\ calls[p].id = "i2"
    /\ OdbExists(Odb, "i2")

----------------------------------------------------------------------------
(* Two intent commands at the same time: each command is a process that     *)
(* reads the current stream and then calls create_intent                    *)

\* commands/intent.rs: current_stream() and the intent built with its tip as parents
IntentReadStep(p) ==
    /\ calls[p] = NoCall
    /\ IdsLeft >= 1
    /\ CurrentStream(Fs).res = "Ok"
    /\ \E statement \in LogStatements : \E now \in LogTimes :
           Progressed(p, Progress([NoCall EXCEPT
                                      !.op = "intent", !.pc = "read",
                                      !.object = Intent(now, statement,
                                                        CurrentStream(Fs).ref.tip, <<>>)],
                                  Fs, Odb, indexes, sha))

\* commands/intent.rs: repo.create_intent(intent) on the intent built before
IntentCreateStep(p) ==
    /\ calls[p].op = "intent"
    /\ calls[p].pc = "read"
    /\ LET bytes == CanonicalBytes(calls[p].object)
           created(r) ==
               Progressed(p, Progress([calls[p] EXCEPT !.pc = "done", !.id = r.id,
                                                       !.ret = <<r.res>>],
                                      r.fs, r.store, r.idx,
                                      IF ReachesHash(Odb, sha, calls[p].object)
                                      THEN Oracle(sha, bytes, Digest(sha, bytes)) ELSE sha))
       IN created(CreateIntent(Fs, Odb, indexes, sha, calls[p].object, Digest(sha, bytes)))

\* the command has printed its id and its process has ended
IntentExitStep(p) ==
    /\ calls[p].op = "intent"
    /\ calls[p].pc = "done"
    /\ \A q \in Procs : calls[q].pc \in {"idle", "done"}
    /\ Progressed(p, Progress(NoCall, Fs, Odb, indexes, sha))

NextIntentRace ==
    \E p \in Procs :
        \/ IntentReadStep(p)
        \/ IntentCreateStep(p)
        \/ IntentExitStep(p)

SpecIntentRace == InitRepository /\ [][NextIntentRace]_vars

\* C35: when two intent commands run at the same time on one stream and both
\* create_intent calls have returned Ok, the walk from the tip of the stream yields
\* the intents of both
BothIntentsAreKept ==
    (\A p \in Procs : calls[p].op = "intent" /\ calls[p].pc = "done" /\ calls[p].ret = <<"Ok">>)
        => \A p \in Procs :
               \E i \in 1..Len(LogCommand(Fs, Odb, sha, WholeLog).ids) :
                   LogCommand(Fs, Odb, sha, WholeLog).ids[i] = calls[p].id

----------------------------------------------------------------------------
(* RefStore::create_stream in steps (refs.rs): the test path.exists(), then  *)
(* write_stream with Lockfile::acquire, write_all and commit                 *)

\* the state after a step of a ref call of process p
RefStepped(p, call, fs, lock) ==
    /\ calls' = [calls EXCEPT ![p] = call]
    /\ locks' = [locks EXCEPT ![p] = lock]
    /\ files' = fs.files
    /\ dirs' = fs.dirs
    /\ UNCHANGED <<objects, persists, indexes, sha, walker, yielded, indexdir>>

\* the refs the racing calls create: one name, told apart by created_at
RacedRefs == {StreamRef(<<"a">>, None, t, None) : t \in {"t1", "t2"}}

\* create_stream(stream) up to the test of path.exists()
CreateStreamCallStep(p) ==
    /\ calls[p] = NoCall
    /\ \E stream \in RacedRefs :
           IF ValidateStreamName(stream.name) # "Ok"
           THEN RefStepped(p, [NoCall EXCEPT !.op = "create_stream", !.pc = "done",
                                             !.object = stream,
                                             !.ret = <<"InvalidStreamName">>],
                           Fs, NoLock)
           ELSE IF PathExists(Fs, StreamPath(stream.name))
           THEN RefStepped(p, [NoCall EXCEPT !.op = "create_stream", !.pc = "done",
                                             !.object = stream, !.ret = <<"StreamExists">>],
                           Fs, NoLock)
           ELSE RefStepped(p, [NoCall EXCEPT !.op = "create_stream", !.pc = "checked",
                                             !.object = stream],
                           Fs, NoLock)

\* write_stream: Lockfile::acquire(&path)
StreamAcquireStep(p) ==
    /\ calls[p].pc = "checked"
    /\ LET got(a) ==
               IF a.res # "Ok"
               THEN RefStepped(p, [calls[p] EXCEPT !.pc = "done", !.ret = <<a.res>>],
                               a.fs, NoLock)
               ELSE RefStepped(p, [calls[p] EXCEPT !.pc = "locked"], a.fs, a.lock)
       IN got(Acquire(Fs, StreamPath(calls[p].object.name)))

\* write_stream: lock.write_all(json.as_bytes())
StreamWriteStep(p) ==
    /\ calls[p].pc = "locked"
    /\ RefStepped(p, [calls[p] EXCEPT !.pc = "written"],
                  WriteAll(Fs, locks[p], RefToJson(calls[p].object)).fs,
                  [locks[p] EXCEPT !.writes = 1])

\* write_stream: lock.commit()
StreamCommitStep(p) ==
    /\ calls[p].pc = "written"
    /\ RefStepped(p, [calls[p] EXCEPT !.pc = "done", !.ret = <<Commit(Fs, locks[p]).res>>],
                  Commit(Fs, locks[p]).fs, NoLock)

\* the call has returned and its caller goes on
StreamReturnStep(p) ==
    /\ calls[p].op = "create_stream"
    /\ calls[p].pc = "done"
    /\ RefStepped(p, NoCall, Fs, NoLock)

\* delete_stream of the raced name, while no create_stream is under way
RacedDeleteStep(p) ==
    /\ \A q \in Procs : calls[q] = NoCall
    /\ DeleteStream(Fs, <<"a">>).res = "Ok"
    /\ RefStepped(p, NoCall, DeleteStream(Fs, <<"a">>).fs, NoLock)

NextStreamRace ==
    \E p \in Procs :
        \/ CreateStreamCallStep(p)
        \/ StreamAcquireStep(p)
        \/ StreamWriteStep(p)
        \/ StreamCommitStep(p)
        \/ StreamReturnStep(p)
        \/ RacedDeleteStep(p)

SpecStreamRace == InitRepository /\ [][NextStreamRace]_vars

\* the create_stream calls that have returned Ok and whose caller has not gone on
Created == {p \in Procs : calls[p].op = "create_stream" /\ calls[p].pc = "done"
                          /\ calls[p].ret = <<"Ok">>}

\* C36: of two create_stream calls of one name that run at the same time at most one
\* returns Ok, the other StreamExists or LockConflict; and the ref stored under the
\* name is the one the successful call wrote
OneCreateStreamWins ==
    /\ \A p \in Created : \A q \in Created :
           calls[p].object.name = calls[q].object.name => p = q
    /\ \A p \in Created :
           /\ ReadStream(Fs, calls[p].object.name).res = "Ok"
           /\ ReadStream(Fs, calls[p].object.name).ref = calls[p].object
    /\ \A p \in Procs :
           (calls[p].op = "create_stream" /\ calls[p].pc = "done") =>
               calls[p].ret \in {<<"Ok">>, <<"StreamExists">>, <<"LockConflict">>}

----------------------------------------------------------------------------
(* Stream names and lock files side by side in refs/streams                  *)

\* a stream, the stream whose name is the first one followed by .lock, and another
DotLockNames == {<<"a">>, <<"a", ".", "lock">>, <<"b">>}

DotLockRefs == {StreamRef(n, None, t, None) : n \in DotLockNames, t \in {"t1", "t2"}}

\* write_stream(stream) by process p, as far as Lockfile::acquire
WriterAcquireStep(p) ==
    /\ ~locks[p].file
    /\ \E stream \in DotLockRefs :
           LET got(a) == a.res = "Ok" /\ Locked(p, a.fs, a.lock)
           IN got(Acquire(Fs, StreamPath(stream.name)))

\* write_stream: lock.write_all(json)
WriterWriteStep(p) ==
    /\ locks[p].file
    /\ locks[p].writes = 0
    /\ \E stream \in DotLockRefs :
           /\ StreamPath(stream.name) = locks[p].target
           /\ Locked(p, WriteAll(Fs, locks[p], RefToJson(stream)).fs,
                     [locks[p] EXCEPT !.writes = 1])

\* write_stream: lock.commit()
WriterCommitStep(p) ==
    /\ locks[p].file
    /\ locks[p].writes = 1
    /\ Locked(p, Commit(Fs, locks[p]).fs, NoLock)

\* create_stream and delete_stream by a process that holds no lock
DotLockCreate == \E stream \in DotLockRefs : DoRef(CreateStream(Fs, stream))

DotLockDelete == \E name \in DotLockNames : DoRef(DeleteStream(Fs, name))

NextDotLock ==
    \/ \E p \in Procs : WriterAcquireStep(p)
    \/ \E p \in Procs : WriterWriteStep(p)
    \/ \E p \in Procs : WriterCommitStep(p)
    \/ DotLockCreate
    \/ DotLockDelete

SpecDotLock == InitRepository /\ [][NextDotLock]_vars

\* C37: the lock file of a stream is not among the names of list_streams, also while a
\* write of the stream is under way; and while no Lockfile of a stream is live,
\* write_stream and update_current_tip of the stream do not fail with LockConflict,
\* whatever other streams exist
LockPathsAreNotStreams ==
    \A stream \in DotLockRefs :
        /\ \A n \in NameSet(ListStreams(Fs)) :
               StreamPath(n) # LockPath(StreamPath(stream.name))
        /\ (\A p \in Procs : ~locks[p].file) =>
               /\ WriteStream(Fs, stream).res # "LockConflict"
               /\ (CurrentStream(Fs).res = "Ok" /\ ReadHead(Fs).name = stream.name) =>
                      UpdateCurrentTip(Fs, "x1").res # "LockConflict"

----------------------------------------------------------------------------
(* The lock file after a ref write has returned *)

\* C38: when set_head or write_stream has acquired its lock file and returns, with Ok or
\* with an error, the lock file is gone, also when the rename of commit has failed;
\* so the same write called again does not fail with LockConflict
LockIsGoneOnReturn ==
    /\ \A name \in StreamNames :
           LET returned(r) ==
                   ~PathExists(Fs, LockPath(HeadPath)) =>
                       /\ ~PathExists(r.fs, LockPath(HeadPath))
                       /\ SetHead(r.fs, name).res # "LockConflict"
           IN returned(SetHead(Fs, name))
    /\ \A stream \in NamedRefInputs :
           LET returned(r) ==
                   ~PathExists(Fs, LockPath(StreamPath(stream.name))) =>
                       /\ ~PathExists(r.fs, LockPath(StreamPath(stream.name)))
                       /\ WriteStream(r.fs, stream).res # "LockConflict"
           IN returned(WriteStream(Fs, stream))

----------------------------------------------------------------------------
(* `stream switch` and `stream delete` at the same time (commands/stream.rs, *)
(* refs.rs): each command is a process, its file operations are the steps   *)

\* a command of process p that has ended with result res
Ended(p, op, name, res, fs) ==
    RefStepped(p, [NoCall EXCEPT !.op = op, !.pc = "done", !.object = [name |-> name],
                                 !.ret = <<res>>],
               fs, NoLock)

\* switch: repo.refs.read_stream(&name)
SwitchReadStep(p) ==
    /\ calls[p] = NoCall
    /\ \E name \in CommandStreamNames :
           IF ReadStream(Fs, name).res # "Ok"
           THEN Ended(p, "switch", name, ReadStream(Fs, name).res, Fs)
           ELSE RefStepped(p, [NoCall EXCEPT !.op = "switch", !.pc = "read",
                                             !.object = [name |-> name]],
                           Fs, NoLock)

\* switch: repo.refs.set_head(&name)
SwitchSetStep(p) ==
    /\ calls[p].op = "switch"
    /\ calls[p].pc = "read"
    /\ LET set(r) == Ended(p, "switch", calls[p].object.name, r.res, r.fs)
       IN set(SetHead(Fs, calls[p].object.name))

\* delete_stream: validate_stream_name, read_head and the comparison with the name
DeleteHeadStep(p) ==
    /\ calls[p] = NoCall
    /\ \E name \in CommandStreamNames :
           IF ValidateStreamName(name) # "Ok"
           THEN Ended(p, "delete", name, "InvalidStreamName", Fs)
           ELSE IF ReadHead(Fs).res # "Ok"
           THEN Ended(p, "delete", name, ReadHead(Fs).res, Fs)
           ELSE IF ReadHead(Fs).name = name
           THEN Ended(p, "delete", name, "StreamNotFound", Fs)
           ELSE RefStepped(p, [NoCall EXCEPT !.op = "delete", !.pc = "head",
                                             !.object = [name |-> name]],
                           Fs, NoLock)

\* delete_stream: path.exists(), remove_file and the removal of empty parents
DeleteRemoveStep(p) ==
    /\ calls[p].op = "delete"
    /\ calls[p].pc = "head"
    /\ LET path == StreamPath(calls[p].object.name)
       IN IF ~PathExists(Fs, path)
          THEN Ended(p, "delete", calls[p].object.name, "StreamNotFound", Fs)
          ELSE IF ~IsFile(Fs, path)
          THEN Ended(p, "delete", calls[p].object.name, "Io", Fs)
          ELSE Ended(p, "delete", calls[p].object.name, "Ok",
                     CleanUpParents(RemoveFile(Fs, path), Parent(path)))

\* the process of a command that has ended is gone
CommandExitStep(p) ==
    /\ calls[p].op \in {"switch", "delete"}
    /\ calls[p].pc = "done"
    /\ RefStepped(p, NoCall, Fs, NoLock)

\* `stream create`, while no other command runs
QuietCreateStep ==
    /\ \A p \in Procs : calls[p] = NoCall
    /\ \E name \in CommandStreamNames : \E now \in LogTimes :
           DoRef(StreamCreate(Fs, name, now))

NextSwitchRace ==
    \/ \E p \in Procs : SwitchReadStep(p)
    \/ \E p \in Procs : SwitchSetStep(p)
    \/ \E p \in Procs : DeleteHeadStep(p)
    \/ \E p \in Procs : DeleteRemoveStep(p)
    \/ \E p \in Procs : CommandExitStep(p)
    \/ QuietCreateStep

SpecSwitchRace == InitRepository /\ [][NextSwitchRace]_vars

\* C39: whatever the interleaving of a `stream switch n` and a `stream delete n`, once
\* both have ended HEAD names a stream that exists: the switch has failed with
\* StreamNotFound or the delete was rejected
SwitchAndDeleteAgree ==
    (\A p \in Procs : calls[p].pc \in {"idle", "done"}) =>
        /\ ReadHead(Fs).res = "Ok"
        /\ ReadStream(Fs, ReadHead(Fs).name).res = "Ok"

----------------------------------------------------------------------------
(* Stream names that are prefixes of one another *)

\* C40: for a name that validate_stream_name accepts and that no stream has,
\* create_stream succeeds whatever other streams exist, a/b beside a included; and
\* create_stream returns StreamExists only when a stream of exactly that name exists
StreamNamesAreIndependent ==
    \A stream \in NamedRefInputs :
        LET created(r, names) ==
                /\ (ValidateStreamName(stream.name) = "Ok" /\ stream.name \notin names) =>
                       r.res = "Ok"
                /\ r.res = "StreamExists" => stream.name \in names
        IN created(CreateStream(Fs, stream), NameSet(ListStreams(Fs)))

====
